---- MODULE Spec2Model ----
(***************************************************************************)
(* Mkweli sanctions screening: the name matcher                            *)
(* (src/app/enhanced_matcher.py) and the watchlist batch parser            *)
(* (src/app/sanctions_service.py) as state machines.                       *)
(*                                                                         *)
(* A Python str is a sequence of characters; a character is a one-letter   *)
(* string, or the name of its code point ("U+00E9") when it is not ASCII.  *)
(* Scores are kept in tenths (815 is 81.5): find_matches rounds every      *)
(* score to one decimal.                                                   *)
(***************************************************************************)
EXTENDS Integers, Sequences, FiniteSets, TLC

(***************************************************************************)
(* Bounds of the model.                                                    *)
(***************************************************************************)
MaxStrLen == 3
MaxEntities == 2
MaxNames == 2
MaxTotalNames == 3

(***************************************************************************)
(* Characters.                                                             *)
(***************************************************************************)
LowerCase == <<"a","b","c","d","e","f","g","h","i","j","k","l","m","n","o","p","q","r","s","t","u","v","w","x","y","z">>
UpperCase == <<"A","B","C","D","E","F","G","H","I","J","K","L","M","N","O","P","Q","R","S","T","U","V","W","X","Y","Z">>
Digits == <<"0","1","2","3","4","5","6","7","8","9">>

\* The characters of the model in code-point order (what sorted() compares).
CodePointOrder == <<" ", "-", "?">> \o Digits \o UpperCase \o <<"_">> \o LowerCase
                    \o <<"U+00C9", "U+00E9", "U+5317">>

Range(f) == {f[i] : i \in DOMAIN f}

IndexOf(seq, c) == CHOOSE i \in DOMAIN seq : seq[i] = c

\* str.isspace for one character
IsSpace(c) == c = " "

\* the regex class \w on the ASCII text unidecode returns
IsWordChar(c) == c \in Range(LowerCase) \cup Range(UpperCase) \cup Range(Digits) \cup {"_"}

\* str.lower for one character: A-Z, and U+00C9 (E acute) to U+00E9
LowerChar(c) ==
    IF c \in Range(UpperCase) THEN LowerCase[IndexOf(UpperCase, c)]
    ELSE IF c = "U+00C9" THEN "U+00E9"
    ELSE c

\* unidecode for one character: ASCII is kept, an accented letter loses its
\* accent, a CJK ideograph becomes its capitalised reading and a space
\* (unidecode("北") is "Bei ").
UnidecodeChar(c) ==
    IF c = "U+00E9" THEN <<"e">>
    ELSE IF c = "U+00C9" THEN <<"E">>
    ELSE IF c = "U+5317" THEN <<"B", "e", "i", " ">>
    ELSE <<c>>

(***************************************************************************)
(* Strings.                                                                *)
(***************************************************************************)
lower(s) == [i \in DOMAIN s |-> LowerChar(s[i])]

RECURSIVE lstrip(_)
lstrip(s) == IF s # <<>> /\ IsSpace(Head(s)) THEN lstrip(Tail(s)) ELSE s

RECURSIVE rstrip(_)
rstrip(s) ==
    IF s # <<>> /\ IsSpace(s[Len(s)]) THEN rstrip(SubSeq(s, 1, Len(s) - 1)) ELSE s

strip(s) == rstrip(lstrip(s))

RECURSIVE unidecode(_)
unidecode(s) == IF s = <<>> THEN <<>> ELSE UnidecodeChar(Head(s)) \o unidecode(Tail(s))

\* re.sub(r'[^\w\s]', ' ', s)
SubPunctuation(s) ==
    [i \in DOMAIN s |-> IF IsWordChar(s[i]) \/ IsSpace(s[i]) THEN s[i] ELSE " "]

\* re.sub(r'\s+', ' ', s)
RECURSIVE SubWhitespace(_)
SubWhitespace(s) ==
    IF s = <<>> THEN <<>>
    ELSE IF IsSpace(Head(s)) THEN <<" ">> \o SubWhitespace(lstrip(s))
    ELSE <<Head(s)>> \o SubWhitespace(Tail(s))

\* str.split(): the maximal runs of non-space characters
RECURSIVE TakeWord(_)
TakeWord(s) ==
    IF s = <<>> \/ IsSpace(Head(s)) THEN <<>> ELSE <<Head(s)>> \o TakeWord(Tail(s))

RECURSIVE split(_)
split(s) ==
    LET t == lstrip(s) IN
    IF t = <<>> THEN <<>>
    ELSE LET w == TakeWord(t) IN <<w>> \o split(SubSeq(t, Len(w) + 1, Len(t)))

\* ' '.join(words)
RECURSIVE join(_)
join(words) ==
    IF words = <<>> THEN <<>>
    ELSE IF Len(words) = 1 THEN words[1]
    ELSE words[1] \o <<" ">> \o join(Tail(words))

\* a < b for str
RECURSIVE StrLess(_, _)
StrLess(a, b) ==
    IF b = <<>> THEN FALSE
    ELSE IF a = <<>> THEN TRUE
    ELSE IF Head(a) = Head(b) THEN StrLess(Tail(a), Tail(b))
    ELSE IndexOf(CodePointOrder, Head(a)) < IndexOf(CodePointOrder, Head(b))

\* sorted(S) of a set of strings
RECURSIVE sorted(_)
sorted(S) ==
    IF S = {} THEN <<>>
    ELSE LET m == CHOOSE x \in S : \A y \in S \ {x} : StrLess(x, y)
         IN <<m>> \o sorted(S \ {m})

\* all strings over the alphabet A of length at most n
StringsUpTo(A, n) == UNION {[1..k -> A] : k \in 0..n}

(***************************************************************************)
(* enhanced_matcher.py: normalisation and tokenisation.                    *)
(***************************************************************************)
ABBREVIATION_MAPPINGS ==
       <<"j","s","c">> :> <<<<"j","o","i","n","t"," ","s","t","o","c","k"," ","c","o","m","p","a","n","y">>, <<"j","o","i","n","t","-","s","t","o","c","k"," ","c","o","m","p","a","n","y">>>> @@
       <<"l","l","c">> :> <<<<"l","i","m","i","t","e","d"," ","l","i","a","b","i","l","i","t","y"," ","c","o","m","p","a","n","y">>>> @@
       <<"l","t","d">> :> <<<<"l","i","m","i","t","e","d">>>> @@
       <<"i","n","c">> :> <<<<"i","n","c","o","r","p","o","r","a","t","e","d">>>> @@
       <<"c","o","r","p">> :> <<<<"c","o","r","p","o","r","a","t","i","o","n">>>> @@
       <<"p","l","c">> :> <<<<"p","u","b","l","i","c"," ","l","i","m","i","t","e","d"," ","c","o","m","p","a","n","y">>>> @@
       <<"g","m","b","h">> :> <<<<"g","e","s","e","l","l","s","c","h","a","f","t"," ","m","i","t"," ","b","e","s","c","h","r","a","n","k","t","e","r"," ","h","a","f","t","u","n","g">>>> @@
       <<"a","g">> :> <<<<"a","k","t","i","e","n","g","e","s","e","l","l","s","c","h","a","f","t">>>> @@
       <<"s","a">> :> <<<<"s","o","c","i","e","d","a","d"," ","a","n","o","n","i","m","a">>, <<"s","o","c","i","e","t","e"," ","a","n","o","n","y","m","e">>>> @@
       <<"n","v">> :> <<<<"n","a","a","m","l","o","z","e"," ","v","e","n","n","o","o","t","s","c","h","a","p">>>> @@
       <<"b","v">> :> <<<<"b","e","s","l","o","t","e","n"," ","v","e","n","n","o","o","t","s","c","h","a","p">>>> @@
       <<"o","o","o">> :> <<<<"o","b","s","h","e","s","t","v","o"," ","s"," ","o","g","r","a","n","i","c","h","e","n","n","o","y"," ","o","t","v","e","t","s","t","v","e","n","n","o","s","t","y","u">>>> @@
       <<"o","a","o">> :> <<<<"o","t","k","r","y","t","o","e"," ","a","k","t","s","i","o","n","e","r","n","o","e"," ","o","b","s","h","e","s","t","v","o">>>> @@
       <<"z","a","o">> :> <<<<"z","a","k","r","y","t","o","e"," ","a","k","t","s","i","o","n","e","r","n","o","e"," ","o","b","s","h","e","s","t","v","o">>>> @@
       <<"p","j","s","c">> :> <<<<"p","u","b","l","i","c"," ","j","o","i","n","t"," ","s","t","o","c","k"," ","c","o","m","p","a","n","y">>>> @@
       <<"c","j","s","c">> :> <<<<"c","l","o","s","e","d"," ","j","o","i","n","t"," ","s","t","o","c","k"," ","c","o","m","p","a","n","y">>>> @@
       <<"o","j","s","c">> :> <<<<"o","p","e","n"," ","j","o","i","n","t"," ","s","t","o","c","k"," ","c","o","m","p","a","n","y">>>> @@
       <<"c","o">> :> <<<<"c","o","m","p","a","n","y">>>> @@
       <<"i","n","t","l">> :> <<<<"i","n","t","e","r","n","a","t","i","o","n","a","l">>>> @@
       <<"s","v","c","s">> :> <<<<"s","e","r","v","i","c","e","s">>>> @@
       <<"m","f","g">> :> <<<<"m","a","n","u","f","a","c","t","u","r","i","n","g">>>> @@
       <<"g","r","p">> :> <<<<"g","r","o","u","p">>, <<"g","r","u","p","p","a">>>> @@
       <<"e","l">> :> <<<<"e","l","e","c","t","r","o","n","i","c">>, <<"e","l","e","c","t","r","o","n","i","c","s">>, <<"e","l","e","c","t","r","i","c","a","l">>>>

_normalize_name(name) ==
    IF name = <<>> THEN <<>>
    ELSE strip(SubWhitespace(SubPunctuation(unidecode(strip(lower(name))))))

\* ExpansionWords of a tokeniser that adds no expansion
ExpansionWords_none(word) == {}

\* the words an abbreviation adds to the token set
ExpansionWords(word) ==
    IF word \in DOMAIN ABBREVIATION_MAPPINGS
    THEN UNION {Range(split(ABBREVIATION_MAPPINGS[word][i])) :
                    i \in DOMAIN ABBREVIATION_MAPPINGS[word]}
    ELSE {}

_tokenize(name) ==
    LET words == {w \in Range(split(name)) : Len(w) > 1}
    IN words \cup UNION {ExpansionWords(w) : w \in words}

_expand_abbreviations(text) ==
    LET words == split(text)
    IN join([i \in DOMAIN words |->
                IF words[i] \in DOMAIN ABBREVIATION_MAPPINGS
                THEN ABBREVIATION_MAPPINGS[words[i]][1] ELSE words[i]])

(***************************************************************************)
(* fuzzywuzzy, as enhanced_matcher.py calls it.  A ratio is                *)
(* round(100 * 2M / T), M the number of characters the two strings have in *)
(* common in order and T the sum of their lengths.                         *)
(***************************************************************************)
Max(a, b) == IF a >= b THEN a ELSE b
Min(a, b) == IF a <= b THEN a ELSE b

\* round(n / d) to the nearest integer, a tie going to the even one (Python)
RoundDiv(n, d) ==
    LET q == n \div d
        r == n % d
    IN IF 2 * r > d THEN q + 1
       ELSE IF 2 * r < d THEN q
       ELSE IF q % 2 = 0 THEN q ELSE q + 1

\* one row of the common-subsequence table: cur[j + 1] is the cell of column j
RECURSIVE LCSRow(_, _, _, _)
LCSRow(prev, c, b, cur) ==
    IF Len(cur) = Len(b) + 1 THEN cur
    ELSE LET j == Len(cur)
         IN LCSRow(prev, c, b,
                   Append(cur, IF c = b[j] THEN prev[j] + 1
                               ELSE Max(prev[j + 1], cur[j])))

RECURSIVE LCSRows(_, _, _)
LCSRows(a, b, prev) ==
    IF a = <<>> \/ Len(prev) = 1 THEN prev[Len(prev)]
    ELSE LCSRows(Tail(a), b, LCSRow(prev, Head(a), b, <<0>>))

MatchingChars(a, b) == LCSRows(a, b, [j \in 1..(Len(b) + 1) |-> 0])

\* fuzz.ratio
Ratio(s1, s2) ==
    IF s1 = s2 THEN 100
    ELSE IF s1 = <<>> \/ s2 = <<>> THEN 0
    ELSE RoundDiv(200 * MatchingChars(s1, s2), Len(s1) + Len(s2))

\* utils.full_process: non-word characters to spaces, lower case, strip
full_process(s) ==
    strip(lower([i \in DOMAIN s |-> IF IsWordChar(s[i]) THEN s[i] ELSE " "]))

\* sorted(list) of strings, by insertion
RECURSIVE InsertSorted(_, _)
InsertSorted(w, ws) ==
    IF ws = <<>> THEN <<w>>
    ELSE IF StrLess(w, Head(ws)) THEN <<w>> \o ws
    ELSE <<Head(ws)>> \o InsertSorted(w, Tail(ws))

RECURSIVE SortWords(_)
SortWords(ws) == IF ws = <<>> THEN <<>> ELSE InsertSorted(Head(ws), SortWords(Tail(ws)))

process_and_sort(s) == strip(join(SortWords(split(full_process(s)))))

\* fuzz.token_sort_ratio
token_sort_ratio(s1, s2) == Ratio(process_and_sort(s1), process_and_sort(s2))

\* fuzz.token_set_ratio, its last step: the best ratio among the sorted
\* intersection and the two intersection-plus-remainder strings
CompareStrings(sorted_sect, combined_1to2, combined_2to1) ==
    Max(Ratio(sorted_sect, combined_1to2),
        Max(Ratio(sorted_sect, combined_2to1), Ratio(combined_1to2, combined_2to1)))

CombineStrings(sorted_sect, sorted_1to2, sorted_2to1) ==
    CompareStrings(strip(sorted_sect),
                   strip(sorted_sect \o <<" ">> \o sorted_1to2),
                   strip(sorted_sect \o <<" ">> \o sorted_2to1))

CompareTokens(tokens1, tokens2) ==
    CombineStrings(join(sorted(tokens1 \cap tokens2)),
                   join(sorted(tokens1 \ tokens2)),
                   join(sorted(tokens2 \ tokens1)))

CompareProcessed(p1, p2) ==
    IF p1 = <<>> \/ p2 = <<>> THEN 0
    ELSE CompareTokens(Range(split(p1)), Range(split(p2)))

\* fuzz.token_set_ratio
token_set_ratio(s1, s2) == CompareProcessed(full_process(s1), full_process(s2))

(***************************************************************************)
(* enhanced_matcher.py: the four layers.  A layer returns None or a score  *)
(* in tenths as a fraction [num, den]: the threshold is compared with the  *)
(* score before find_matches rounds it.                                    *)
(***************************************************************************)
None == [num |-> -1, den |-> 1]

Frac(n, d) == [num |-> n, den |-> d]

\* min(a, b) of two fractions
FracMin(a, b) == IF a.num * b.den <= b.num * a.den THEN a ELSE b

\* AtLeast with the comparison turned round
AtLeast_inverted(score, t) == score.num <= t * score.den

\* score >= threshold, the threshold in tenths
AtLeast(score, t) == score.num >= t * score.den

\* round(score, 1), in tenths
Round1(score) == RoundDiv(score.num, score.den)

_layer1_exact_match(query_normalized, target_normalized) ==
    IF query_normalized = target_normalized /\ query_normalized # <<>>
    THEN Frac(1000, 1)
    ELSE None

\* combined_ratio = 0.7 * m/q + 0.3 * m/t = (7mt + 3mq) / (10qt), and
\* 85 + (combined_ratio - 0.85) * (14 / 0.15), in tenths, is
\* 850 + 140 * (2(7mt + 3mq) - 17qt) / (3qt).
_layer2_token_match(query_tokens, target_tokens) ==
    LET m == Cardinality(query_tokens \cap target_tokens)
        q == Cardinality(query_tokens)
        t == Cardinality(target_tokens)
        n == 7 * m * t + 3 * m * q
    IN IF query_tokens = {} \/ target_tokens = {} THEN None
       ELSE IF m = 0 THEN None
       ELSE IF 100 * n >= 85 * 10 * q * t
            THEN FracMin(Frac(990, 1),
                         Frac(850 * 3 * q * t + 140 * (2 * n - 17 * q * t), 3 * q * t))
       ELSE None

\* 75 + (score - 75) * (9 / 25), in tenths
_layer3_phonetic_match(query_normalized, query_tokens, target_normalized, target_tokens) ==
    LET score == token_sort_ratio(_expand_abbreviations(query_normalized),
                                  _expand_abbreviations(target_normalized))
    IN IF score >= 75
       THEN FracMin(Frac(840, 1), Frac(750 * 25 + (score - 75) * 90, 25))
       ELSE None

\* _layer4_fuzzy_match that returns the raw ratio, not rescaled into 70-74
_layer4_fuzzy_match_raw(query_normalized, target_normalized) ==
    LET score == token_set_ratio(query_normalized, target_normalized)
    IN IF score >= 70 THEN Frac(score * 10, 1) ELSE None

\* 70 + (score - 70) * (4 / 30), in tenths
_layer4_fuzzy_match(query_normalized, target_normalized) ==
    LET score == token_set_ratio(query_normalized, target_normalized)
    IN IF score >= 70
       THEN FracMin(Frac(740, 1), Frac(700 * 30 + (score - 70) * 40, 30))
       ELSE None

\* TryLayers with the layers tried from the last to the first
TryLayers_last_first(query_normalized, query_tokens, target_normalized, target_tokens) ==
    LET s1 == _layer1_exact_match(query_normalized, target_normalized)
        s2 == _layer2_token_match(query_tokens, target_tokens)
        s3 == _layer3_phonetic_match(query_normalized, query_tokens,
                                     target_normalized, target_tokens)
        s4 == _layer4_fuzzy_match(query_normalized, target_normalized)
    IN IF s4 # None THEN [score |-> s4, match_layer |-> "fuzzy"]
       ELSE IF s3 # None THEN [score |-> s3, match_layer |-> "phonetic"]
       ELSE IF s2 # None THEN [score |-> s2, match_layer |-> "token"]
       ELSE IF s1 # None THEN [score |-> s1, match_layer |-> "exact"]
       ELSE [score |-> None, match_layer |-> "none"]

\* find_matches, the body of its loop: the layers in order of decreasing
\* confidence, a layer being tried only when the ones before returned None
TryLayers(query_normalized, query_tokens, target_normalized, target_tokens) ==
    LET s1 == _layer1_exact_match(query_normalized, target_normalized)
        s2 == _layer2_token_match(query_tokens, target_tokens)
        s3 == _layer3_phonetic_match(query_normalized, query_tokens,
                                     target_normalized, target_tokens)
        s4 == _layer4_fuzzy_match(query_normalized, target_normalized)
    IN IF s1 # None THEN [score |-> s1, match_layer |-> "exact"]
       ELSE IF s2 # None THEN [score |-> s2, match_layer |-> "token"]
       ELSE IF s3 # None THEN [score |-> s3, match_layer |-> "phonetic"]
       ELSE IF s4 # None THEN [score |-> s4, match_layer |-> "fuzzy"]
       ELSE [score |-> None, match_layer |-> "none"]

(***************************************************************************)
(* enhanced_matcher.py: risk tiers and the risk score.                     *)
(***************************************************************************)
RISK_TIERS ==
    "UN"   :> [tier |-> 1, authority |-> "United Nations Security Council"] @@
    "UNSC" :> [tier |-> 1, authority |-> "United Nations Security Council"] @@
    "OFAC" :> [tier |-> 2, authority |-> "OFAC/US Treasury"] @@
    "US"   :> [tier |-> 2, authority |-> "OFAC/US Treasury"] @@
    "UK"   :> [tier |-> 2, authority |-> "UK HM Treasury"] @@
    "EU"   :> [tier |-> 2, authority |-> "European Union"]

DEFAULT_RISK_TIER == [tier |-> 3, authority |-> "Other Authority"]

\* an entity dict without the key list_type, and one whose list_type is None
Missing == "<missing>"
Null == "<None>"

\* not lt, for a list type
Falsy(lt) == lt \in {"", Null}

\* str.upper on a list type
UpperListType(lt) ==
    CASE lt = "un" -> "UN"
      [] lt = "Unknown" -> "UNKNOWN"
      [] lt = "ofac" -> "OFAC"
      [] lt = "Generic" -> "GENERIC"
      [] OTHER -> lt

_get_risk_tier(list_type) ==
    LET list_type_upper == IF ~ Falsy(list_type) THEN UpperListType(list_type) ELSE ""
    IN IF list_type_upper \in DOMAIN RISK_TIERS
       THEN RISK_TIERS[list_type_upper] ELSE DEFAULT_RISK_TIER

\* Amplify without the cap at 100
Amplify_uncapped(score, m100) ==
    LET n == score * m100
    IN IF m100 = 115 /\ n % 100 = 50
       THEN (IF score \in {50, 650} THEN n \div 100 + 1 ELSE n \div 100)
       ELSE RoundDiv(n, 100)

\* round(min(100, score * m), 1) for a score in tenths and m = m100 / 100.
\* 1.25 and 1.2 give the nearest tenth, a tie going to the even one; the
\* float 1.15 lies below 1.15, so a tie goes down, except at 5.0 and 65.0.
Amplify(score, m100) ==
    LET n == score * m100
    IN Min(1000, IF m100 = 115 /\ n % 100 = 50
                 THEN (IF score \in {50, 650} THEN n \div 100 + 1 ELSE n \div 100)
                 ELSE RoundDiv(n, 100))

\* what the call raises when min() gets no tier
ValueError == [raised |-> "ValueError"]

\* Multiplier that takes 1.25 for every set of tiers
Multiplier_flat(tiers) == 125

\* the multiplier of a multi-jurisdictional match, in hundredths
Multiplier(tiers) ==
    IF 1 \in tiers /\ Cardinality(tiers) > 1 THEN 125
    ELSE IF 1 \in tiers THEN 120
    ELSE 115

\* weighted_score before it is rounded, in thousandths: min(100, score * m)
Weighted(score, m100) == Min(100000, score * m100)

\* the risk level of a weighted score in thousandths
RiskLevel(weighted_score, highest_tier, is_multi_jurisdictional) ==
    IF weighted_score >= 90000 /\ highest_tier = 1 THEN "Critical"
    ELSE IF weighted_score >= 85000 \/ (weighted_score >= 80000 /\ highest_tier = 1)
         THEN "Very High"
    ELSE IF weighted_score >= 75000 \/ is_multi_jurisdictional THEN "High"
    ELSE IF weighted_score >= 70000 THEN "Medium"
    ELSE "Low"

\* the level is taken from weighted_score as computed, the reported
\* risk_score is round(weighted_score, 1)
_calculate_risk_score(match_score, list_types) ==
    LET unique_lists == {UpperListType(lt) : lt \in {l \in list_types : ~ Falsy(l)}}
        tiers == {_get_risk_tier(lt).tier : lt \in unique_lists}
        is_multi_jurisdictional == Cardinality(unique_lists) > 1
        highest_tier == CHOOSE t \in tiers : \A u \in tiers : t <= u
        m100 == IF is_multi_jurisdictional THEN Multiplier(tiers) ELSE 100
    IN IF list_types = {}
       THEN [raised |-> "no", risk_score |-> match_score, risk_level |-> "Unknown",
             tier |-> 3, is_multi_jurisdictional |-> "null"]
       ELSE IF tiers = {} THEN ValueError
       ELSE [raised |-> "no",
             risk_score |-> IF is_multi_jurisdictional THEN Amplify(match_score, m100)
                            ELSE match_score,
             risk_level |-> RiskLevel(Weighted(match_score, m100), highest_tier,
                                      is_multi_jurisdictional),
             tier |-> highest_tier,
             is_multi_jurisdictional |-> IF is_multi_jurisdictional THEN "true" ELSE "false"]

(***************************************************************************)
(* The names and queries of the model.                                     *)
(***************************************************************************)
JohnDoe == <<"J","o","h","n"," ","D","o","e">>
JonDoe == <<"J","o","n"," ","D","o","e">>
John == <<"J","o","h","n">>
AcmeLtd == <<"A","c","m","e"," ","L","t","d">>
AcmeLimited == <<"A","c","m","e"," ","L","i","m","i","t","e","d">>
OneLetter == <<"J">>
Punctuation == <<"?","?">>
Blank == <<" ">>

\* the names the entities of the model carry
NamePool == {John, JohnDoe, AcmeLtd, OneLetter, Punctuation}

\* the queries of the model
QueryPool == NamePool \cup {JonDoe, AcmeLimited, <<>>, Blank}

\* list types the watchlist parsers emit: one of tier 1, one of tier 2
ListTypes == {"UN", "OFAC"}

\* thresholds in tenths; 700 is the default of find_matches
DefaultThreshold == 700
Thresholds == {DefaultThreshold, 850, 1000}

\* an entity as the parsers of sanctions_service.py emit it
Entity(list_type, names) ==
    [list_type |-> list_type, names |-> names, primary_name |-> names[1]]

EntitySet ==
    {Entity(lt, ns) : lt \in ListTypes,
                      ns \in UNION {[1..k -> NamePool] : k \in 1..MaxNames}}

\* The normal form of every name of the model, evaluated once.
NormalForms == [n \in QueryPool |-> _normalize_name(n)]

Normalized(name) ==
    IF name \in DOMAIN NormalForms THEN NormalForms[name] ELSE _normalize_name(name)

(***************************************************************************)
(* enhanced_matcher.py: the index.  An entity is a position of             *)
(* sanctions_entities (id(entity) in the code).                            *)
(***************************************************************************)
IndexEntry(name, e) ==
    LET normalized == Normalized(name)
    IN [original_name |-> name, normalized |-> normalized,
        tokens |-> _tokenize(normalized), entity |-> e]

RECURSIVE AliasEntries(_, _, _)
AliasEntries(names, primary_name, e) ==
    IF names = <<>> THEN <<>>
    ELSE LET name == Head(names)
         IN (IF name # <<>> /\ name # primary_name /\ Len(strip(name)) > 1
             THEN <<IndexEntry(name, e)>> ELSE <<>>)
            \o AliasEntries(Tail(names), primary_name, e)

\* EntriesOf with the aliases indexed before the primary name
EntriesOf_aliases_first(entity, e) ==
    AliasEntries(entity.names, entity.primary_name, e)
    \o (IF entity.primary_name # <<>> /\ Len(strip(entity.primary_name)) > 1
        THEN <<IndexEntry(entity.primary_name, e)>> ELSE <<>>)

\* the body of the loop of _build_index: the entries of one entity, its
\* primary name first
EntriesOf(entity, e) ==
    (IF entity.primary_name # <<>> /\ Len(strip(entity.primary_name)) > 1
     THEN <<IndexEntry(entity.primary_name, e)>> ELSE <<>>)
    \o AliasEntries(entity.names, entity.primary_name, e)

RECURSIVE BuildFrom(_, _)
BuildFrom(entities, e) ==
    IF e > Len(entities) THEN <<>>
    ELSE EntriesOf(entities[e], e) \o BuildFrom(entities, e + 1)

_build_index(entities) == BuildFrom(entities, 1)

\* the entity lists of at most n entities that carry at most t names in all
RECURSIVE ListsWithin(_, _)
ListsWithin(n, t) ==
    {<<>>} \cup
    (IF n = 0 THEN {}
     ELSE UNION {{<<e>> \o rest : rest \in ListsWithin(n - 1, t - Len(e.names))} :
                    e \in {x \in EntitySet : Len(x.names) <= t}})

EntityLists == ListsWithin(MaxEntities, MaxTotalNames)

(***************************************************************************)
(* enhanced_matcher.py: find_matches.                                      *)
(***************************************************************************)
\* TryLayers depends on the two normalized names alone (the tokens of an
\* index entry are those of its normalized name); it is evaluated once for
\* every pair of names of the model.
KnownNormalized == Range(NormalForms)

MatchTable ==
    [qn \in KnownNormalized |->
        [tn \in KnownNormalized |-> TryLayers(qn, _tokenize(qn), tn, _tokenize(tn))]]

ScoreEntry(query_normalized, query_tokens, entry) ==
    IF query_normalized \in KnownNormalized /\ entry.normalized \in KnownNormalized
    THEN MatchTable[query_normalized][entry.normalized]
    ELSE TryLayers(query_normalized, query_tokens, entry.normalized, entry.tokens)

\* list.sort(key = (risk_score, score), reverse = True): stable
RECURSIVE InsertByRisk(_, _)
InsertByRisk(m, ms) ==
    IF ms = <<>> THEN <<m>>
    ELSE IF \/ Head(ms).risk_score > m.risk_score
            \/ Head(ms).risk_score = m.risk_score /\ Head(ms).score >= m.score
         THEN <<Head(ms)>> \o InsertByRisk(m, Tail(ms))
    ELSE <<m>> \o ms

\* SortByRisk that leaves the list in the order it was built
SortByRisk_unsorted(ms) == ms

RECURSIVE SortByRisk(_)
SortByRisk(ms) ==
    IF ms = <<>> THEN <<>>
    ELSE InsertByRisk(ms[Len(ms)], SortByRisk(SubSeq(ms, 1, Len(ms) - 1)))

\* entity.get('list_type', 'Unknown')
ListTypeOf(entity) == IF entity.list_type = Missing THEN "Unknown" ELSE entity.list_type

\* the match find_matches appends for an index entry that scored
MatchOf(entry, entity, scored) ==
    [matched_name |-> entry.original_name,
     score |-> Round1(scored.score),
     match_layer |-> scored.match_layer,
     entity_id |-> entry.entity,
     normalized_primary |-> Normalized(entity.primary_name),
     list_type |-> ListTypeOf(entity),
     primary_name |-> entity.primary_name,
     risk_tier |-> _get_risk_tier(ListTypeOf(entity)).tier]

\* the threshold test on the score the layers gave an entry
MatchIfAtLeast(entry, entity, scored, threshold) ==
    IF scored.score # None /\ AtLeast(scored.score, threshold)
    THEN <<MatchOf(entry, entity, scored)>>
    ELSE <<>>

RECURSIVE MatchesFrom(_, _, _, _, _, _)
MatchesFrom(index, i, entities, query_normalized, query_tokens, threshold) ==
    IF i > Len(index) THEN <<>>
    ELSE MatchIfAtLeast(index[i], entities[index[i].entity],
                        ScoreEntry(query_normalized, query_tokens, index[i]), threshold)
         \o MatchesFrom(index, i + 1, entities, query_normalized, query_tokens, threshold)

TokenizeAndMatch(index, entities, query_normalized, threshold) ==
    MatchesFrom(index, 1, entities, query_normalized, _tokenize(query_normalized), threshold)

\* the first loop of find_matches: the index entries whose score meets the
\* threshold, in index order
AllMatches(index, entities, query, threshold) ==
    TokenizeAndMatch(index, entities, Normalized(query), threshold)

\* name_to_lists[np]: the list types of the matches whose entity has the
\* normalized primary name np
name_to_lists(all_matches, np) ==
    {all_matches[j].list_type :
        j \in {k \in DOMAIN all_matches : all_matches[k].normalized_primary = np}}

\* Deduplicate with the seen_entities test left out
Deduplicate_keep_all(all_matches) == all_matches

RECURSIVE UnseenFrom(_, _, _)
UnseenFrom(all_matches, k, seen_entities) ==
    IF k > Len(all_matches) THEN <<>>
    ELSE IF all_matches[k].entity_id \in seen_entities
         THEN UnseenFrom(all_matches, k + 1, seen_entities)
    ELSE <<all_matches[k]>>
         \o UnseenFrom(all_matches, k + 1, seen_entities \cup {all_matches[k].entity_id})

\* the second loop of find_matches: the matches whose entity was not seen
\* before, in the order of all_matches
Deduplicate(all_matches) == UnseenFrom(all_matches, 1, {})

\* a match with the fields of its risk score, or the error the score raised
WithRisk(match, risk_info) ==
    IF risk_info = ValueError THEN ValueError
    ELSE [matched_name |-> match.matched_name,
          score |-> match.score,
          match_layer |-> match.match_layer,
          entity_id |-> match.entity_id,
          list_type |-> match.list_type,
          primary_name |-> match.primary_name,
          risk_tier |-> match.risk_tier,
          risk_score |-> risk_info.risk_score,
          risk_level |-> risk_info.risk_level,
          is_multi_jurisdictional |-> risk_info.is_multi_jurisdictional]

RECURSIVE WithRiskFrom(_, _, _)
WithRiskFrom(kept, k, all_matches) ==
    IF k > Len(kept) THEN <<>>
    ELSE <<WithRisk(kept[k],
                    _calculate_risk_score(kept[k].score,
                        name_to_lists(all_matches, kept[k].normalized_primary)))>>
         \o WithRiskFrom(kept, k + 1, all_matches)

\* the sort that ends find_matches, unless a risk score raised
SortOrRaise(matches) ==
    IF \E k \in DOMAIN matches : matches[k] = ValueError
    THEN [raised |-> "ValueError", matches |-> <<>>]
    ELSE [raised |-> "no", matches |-> SortByRisk(matches)]

\* DeduplicateAndSort that keeps the first match only, as a cap of one would
DeduplicateAndSort_capped(all_matches) ==
    SortOrRaise(WithRiskFrom(IF Deduplicate(all_matches) = <<>> THEN <<>>
                             ELSE <<Deduplicate(all_matches)[1]>>, 1, all_matches))

DeduplicateAndSort(all_matches) ==
    SortOrRaise(WithRiskFrom(Deduplicate(all_matches), 1, all_matches))

find_matches(index, entities, query, threshold) ==
    IF query = <<>> \/ strip(query) = <<>> THEN [raised |-> "no", matches |-> <<>>]
    ELSE DeduplicateAndSort(AllMatches(index, entities, query, threshold))

(***************************************************************************)
(* sanctions_service.py: the watchlist parsers.  The root of a parsed       *)
(* document is the sequence of its record elements; a record has a tag and  *)
(* child elements, each with a tag and either a text or a wholeName         *)
(* attribute.  An OFAC entity lies in the entities container and its        *)
(* formattedFullName below names/name/translations/translation.             *)
(***************************************************************************)
\* sub in s, for two str
Contains(sub, s) ==
    \E i \in 1..(Len(s) - Len(sub) + 1) : SubSeq(s, i, i + Len(sub) - 1) = sub

\* str.isalpha for one character
IsAlpha(c) ==
    c \in Range(LowerCase) \cup Range(UpperCase) \cup {"U+00C9", "U+00E9", "U+5317"}

\* The names of the model hold no URL and no script; the e-mail and the handle
\* patterns both ask for an @ before a word character.
_contains_illegal_content(text) ==
    \/ text = <<>>
    \/ \E i \in 1..(Len(text) - 1) : text[i] = "@" /\ IsWordChar(text[i + 1])
    \/ Len(strip(text)) < 2
    \/ Len(strip(text)) > 200
    \/ ~ \E i \in DOMAIN text : IsAlpha(text[i])

Element(tag, text) == [tag |-> tag, text |-> text, wholeName |-> <<>>]

NameAlias(wholeName) == [tag |-> "nameAlias", text |-> <<>>, wholeName |-> wholeName]

Record(tag, children) == [tag |-> tag, children |-> children]

\* the stripped texts of the children with the tag that are not blank
RECURSIVE TextsOf(_, _)
TextsOf(children, tag) ==
    IF children = <<>> THEN <<>>
    ELSE (IF Head(children).tag = tag /\ strip(Head(children).text) # <<>>
          THEN <<strip(Head(children).text)>> ELSE <<>>)
         \o TextsOf(Tail(children), tag)

\* the stripped wholeName attributes of the nameAlias children
RECURSIVE WholeNamesOf(_)
WholeNamesOf(children) ==
    IF children = <<>> THEN <<>>
    ELSE (IF Head(children).tag = "nameAlias" /\ strip(Head(children).wholeName) # <<>>
          THEN <<strip(Head(children).wholeName)>> ELSE <<>>)
         \o WholeNamesOf(Tail(children))

RECURSIVE WithoutIllegal(_)
WithoutIllegal(names) ==
    IF names = <<>> THEN <<>>
    ELSE (IF _contains_illegal_content(Head(names)) THEN <<>> ELSE <<Head(names)>>)
         \o WithoutIllegal(Tail(names))

\* list(dict.fromkeys(names))
RECURSIVE FromKeys(_, _)
FromKeys(names, seen) ==
    IF names = <<>> THEN <<>>
    ELSE IF Head(names) \in seen THEN FromKeys(Tail(names), seen)
    ELSE <<Head(names)>> \o FromKeys(Tail(names), seen \cup {Head(names)})

\* the entity a parser appends for a record, if the record gave names
ParsedEntity(source, list_type, names, listed_names) ==
    IF names = <<>> THEN <<>>
    ELSE <<[source |-> source, list_type |-> list_type,
            names |-> listed_names, primary_name |-> names[1]]>>

RECURSIVE _parse_uk_format(_, _)
_parse_uk_format(root, source) ==
    IF root = <<>> THEN <<>>
    ELSE (IF Head(root).tag = "Designation"
          THEN ParsedEntity(source, "UK",
                   TextsOf(Head(root).children, "Name")
                       \o TextsOf(Head(root).children, "Name6"),
                   TextsOf(Head(root).children, "Name")
                       \o TextsOf(Head(root).children, "Name6"))
          ELSE <<>>)
         \o _parse_uk_format(Tail(root), source)

RECURSIVE _parse_eu_format(_, _)
_parse_eu_format(root, source) ==
    IF root = <<>> THEN <<>>
    ELSE (IF Head(root).tag = "sanctionEntity"
          THEN ParsedEntity(source, "EU",
                   WithoutIllegal(WholeNamesOf(Head(root).children)),
                   FromKeys(WithoutIllegal(WholeNamesOf(Head(root).children)), {}))
          ELSE <<>>)
         \o _parse_eu_format(Tail(root), source)

RECURSIVE _parse_un_format(_, _)
_parse_un_format(root, source) ==
    IF root = <<>> THEN <<>>
    ELSE (IF Head(root).tag = "Designation"
          THEN ParsedEntity(source, "UN",
                   WithoutIllegal(TextsOf(Head(root).children, "Name6")),
                   WithoutIllegal(TextsOf(Head(root).children, "Name6")))
          ELSE <<>>)
         \o _parse_un_format(Tail(root), source)

RECURSIVE _parse_ofac_format(_, _)
_parse_ofac_format(root, source) ==
    IF root = <<>> THEN <<>>
    ELSE (IF Head(root).tag = "entity"
          THEN ParsedEntity(source, "OFAC",
                   WithoutIllegal(TextsOf(Head(root).children, "formattedFullName")),
                   FromKeys(WithoutIllegal(
                       TextsOf(Head(root).children, "formattedFullName")), {}))
          ELSE <<>>)
         \o _parse_ofac_format(Tail(root), source)

\* re.match(r'^\d+(\.\d+)*$', text) on a text without a dot
IsVersionNumber(text) ==
    text # <<>> /\ \A i \in DOMAIN text : text[i] \in Range(Digits)

StartsWith(text, prefix) ==
    Len(text) >= Len(prefix) /\ SubSeq(text, 1, Len(prefix)) = prefix

\* the test _parse_generic makes on the text of an element
LooksLikeName(text) ==
    /\ Len(strip(text)) > 2
    /\ Len(strip(text)) <= 200
    /\ ~ StartsWith(strip(text), <<"h","t","t","p">>)
    /\ ~ StartsWith(strip(text), <<"w","w","w",".">>)
    /\ ~ StartsWith(strip(text), <<"@">>)
    /\ ~ IsVersionNumber(strip(text))
    /\ \E i \in DOMAIN text : IsAlpha(text[i])

\* Every tag of the model holds one of the keywords of _parse_generic (name,
\* entity, designation, alias), and no element has one of the attributes its
\* second loop reads: an entity is appended for every element whose text
\* looks like a name.
RECURSIVE GenericFromChildren(_, _)
GenericFromChildren(children, source) ==
    IF children = <<>> THEN <<>>
    ELSE (IF LooksLikeName(Head(children).text)
          THEN <<[source |-> source, list_type |-> "Generic",
                  names |-> <<strip(Head(children).text)>>,
                  primary_name |-> strip(Head(children).text)]>>
          ELSE <<>>)
         \o GenericFromChildren(Tail(children), source)

RECURSIVE _parse_generic(_, _)
_parse_generic(root, source) ==
    IF root = <<>> THEN <<>>
    ELSE GenericFromChildren(Head(root).children, source)
         \o _parse_generic(Tail(root), source)

\* _parse_all_sanctions, the choice of the parser: by the name of the file
ParseByFilename(filename, root, source) ==
    IF Contains(<<"u","k">>, filename) THEN _parse_uk_format(root, source)
    ELSE IF Contains(<<"e","u">>, filename) THEN _parse_eu_format(root, source)
    ELSE IF Contains(<<"u","n">>, filename) THEN _parse_un_format(root, source)
    ELSE IF Contains(<<"o","f","a","c">>, filename) THEN _parse_ofac_format(root, source)
    ELSE _parse_generic(root, source)

(***************************************************************************)
(* The files of the model.                                                 *)
(***************************************************************************)
MaxFiles == 2

FileNames ==
    {<<"U","N",".","x","m","l">>,
     <<"o","f","a","c",".","x","m","l">>,
     <<"u","k",".","x","m","l">>,
     <<"e","u",".","x","m","l">>,
     <<"l","i","s","t",".","x","m","l">>}

UNDocument == <<Record("Designation", <<Element("Name6", John)>>)>>

UKDocument ==
    <<Record("Designation", <<Element("Name6", JonDoe), Element("Name", John)>>)>>

EUDocument ==
    <<Record("sanctionEntity", <<NameAlias(AcmeLtd), NameAlias(AcmeLtd)>>)>>

OFACDocument ==
    <<Record("entity", <<Element("formattedFullName", JohnDoe)>>),
      Record("entity", <<Element("formattedFullName", OneLetter)>>)>>

Documents == {UNDocument, UKDocument, EUDocument, OFACDocument}

\* a file of the directory: what ET.parse makes of it is a root, or an error
\* when the file is not well-formed
XmlFile(name, wellformed, document) ==
    [name |-> name, wellformed |-> wellformed, document |-> document]

XmlFiles ==
    {XmlFile(n, TRUE, d) : n \in FileNames, d \in Documents}
        \cup {XmlFile(n, FALSE, <<>>) : n \in FileNames}

\* the directories of at most n files, in every order glob can list them
RECURSIVE Directories(_)
Directories(n) ==
    IF n = 0 THEN {<<>>}
    ELSE Directories(n - 1) \cup
         {Append(d, f) : d \in {x \in Directories(n - 1) : Len(x) = n - 1},
                         f \in XmlFiles}

DistinctNames(files) ==
    \A i, j \in DOMAIN files : i # j => files[i].name # files[j].name

(***************************************************************************)
(* robust_xml_parser.py and robust_sanctions_parser.py: the two other      *)
(* watchlist parsers of the repository, given the root of one document.    *)
(* An entity is the dict a parser emits, with the keys it sets.            *)
(***************************************************************************)
\* list(set(names)): the distinct names, in any of the orders a set can
\* iterate in (the hash of a str changes from one process to the next)
SetOrders(names) ==
    {o \in [1..Cardinality(Range(names)) -> Range(names)] : Range(o) = Range(names)}

\* RobustXMLParser._parse_uk_designation: the entities it gives, none when it
\* returns None
_parse_uk_designation(designation, source_name) ==
    ParsedEntity(source_name, "UK",
        TextsOf(designation.children, "Name") \o TextsOf(designation.children, "Name6"),
        TextsOf(designation.children, "Name") \o TextsOf(designation.children, "Name6"))

\* RobustXMLParser._parse_eu_entity, for every order of list(set(names))
_parse_eu_entity(entity_elem, source_name) ==
    {ParsedEntity(source_name, "EU", WholeNamesOf(entity_elem.children), listed) :
        listed \in SetOrders(WholeNamesOf(entity_elem.children))}

\* RobustXMLParser._extract_entities for a source name that holds 'uk' or
\* 'eu', the source names of the model: every list it can return
RECURSIVE _extract_entities(_, _)
_extract_entities(root, source_name) ==
    IF root = <<>> THEN {<<>>}
    ELSE {first \o rest :
            first \in (IF Contains(<<"u","k">>, lower(source_name))
                       THEN (IF Head(root).tag = "Designation"
                             THEN {_parse_uk_designation(Head(root), source_name)}
                             ELSE {<<>>})
                       ELSE (IF Head(root).tag = "sanctionEntity"
                             THEN _parse_eu_entity(Head(root), source_name)
                             ELSE {<<>>})),
            rest \in _extract_entities(Tail(root), source_name)}

\* max(names, key=len): the first of the longest names
RECURSIVE Longest(_, _)
Longest(names, best) ==
    IF names = <<>> THEN best
    ELSE Longest(Tail(names), IF Len(Head(names)) > Len(best) THEN Head(names) ELSE best)

\* RobustSanctionsParser._parse_uk_specific
RECURSIVE _parse_uk_specific(_, _)
_parse_uk_specific(root, source) ==
    IF root = <<>> THEN <<>>
    ELSE (IF Head(root).tag = "Designation"
             /\ TextsOf(Head(root).children, "Name")
                    \o TextsOf(Head(root).children, "Title")
                    \o TextsOf(Head(root).children, "name") # <<>>
          THEN <<[source |-> source, list_type |-> "UK",
                  primary_name |->
                      Longest(TextsOf(Head(root).children, "Name")
                                  \o TextsOf(Head(root).children, "Title")
                                  \o TextsOf(Head(root).children, "name"), <<>>),
                  names |-> TextsOf(Head(root).children, "Name")
                                \o TextsOf(Head(root).children, "Title")
                                \o TextsOf(Head(root).children, "name")]>>
          ELSE <<>>)
         \o _parse_uk_specific(Tail(root), source)

\* RobustSanctionsParser._parse_eu_specific over the children of one record.
\* Every element of the model that has a text has 'name' or 'title' in its
\* tag, so _is_likely_entity_name holds, and no text of the model is one
\* _is_descriptive_text refuses; the dict has no 'names' key.
RECURSIVE EuSpecificFromChildren(_, _)
EuSpecificFromChildren(children, source) ==
    IF children = <<>> THEN <<>>
    ELSE (IF strip(Head(children).text) # <<>>
          THEN <<[source |-> source, list_type |-> "EU",
                  primary_name |-> strip(Head(children).text)]>>
          ELSE <<>>)
         \o EuSpecificFromChildren(Tail(children), source)

RECURSIVE _parse_eu_specific(_, _)
_parse_eu_specific(root, source) ==
    IF root = <<>> THEN <<>>
    ELSE EuSpecificFromChildren(Head(root).children, source)
         \o _parse_eu_specific(Tail(root), source)

\* RobustSanctionsParser._parse_xml_with_format_detection: the strategies in
\* turn until one has appended an entity.  No document of the model has an
\* sdnEntry or an INDIVIDUAL element, and no text of the model has a space in
\* it: _parse_ofac_specific, _parse_un_specific and _parse_generic_deep
\* append nothing.
_parse_xml_with_format_detection(root, filename) ==
    IF _parse_uk_specific(root, filename) # <<>>
    THEN _parse_uk_specific(root, filename)
    ELSE _parse_eu_specific(root, filename)

\* the elements a record of the model is made of
Alpha == <<"A","l","p","h","a">>
Al == <<"A","l">>

RobustElements ==
    {Element("Name", Al), Element("Name", Alpha), Element("Name", Blank),
     Element("Name6", Al), Element("Title", Alpha),
     NameAlias(Al), NameAlias(Alpha)}

RECURSIVE ChildrenUpTo(_)
ChildrenUpTo(n) ==
    IF n = 0 THEN {<<>>}
    ELSE ChildrenUpTo(n - 1) \cup
         {Append(c, x) : c \in {y \in ChildrenUpTo(n - 1) : Len(y) = n - 1},
                         x \in RobustElements}

\* the documents of one record
RobustDocuments ==
    {<<Record(tag, children)>> :
        tag \in {"Designation", "sanctionEntity"}, children \in ChildrenUpTo(MaxNames)}

RobustSources == {<<"u","k",".","x","m","l">>, <<"e","u",".","x","m","l">>}

ParserClasses == {"SanctionsService", "RobustXMLParser", "RobustSanctionsParser"}

(***************************************************************************)
(* app.py: parse_un_xml, parse_eu_xml and parse_canada_xml.  A record is   *)
(* an INDIVIDUAL, a sanctionEntity or an item with the children it has;    *)
(* the regulationSummary of a sanctionEntity stands for the path           *)
(* regulation/regulationSummary.  A text of <<>> is the text None of an    *)
(* empty element, which the parsers read as ''.                            *)
(***************************************************************************)
MaxRecords == 2

\* element.find(tag) is not None
HasChild(children, tag) == \E i \in DOMAIN children : children[i].tag = tag

\* element.find(tag), the first child with the tag
FirstChild(children, tag) ==
    children[CHOOSE i \in DOMAIN children :
                 /\ children[i].tag = tag
                 /\ \A j \in 1..(i - 1) : children[j].tag # tag]

AttributeError == [raised |-> "AttributeError"]

NoEntry == [raised |-> "no", entries |-> <<>>]

OneEntry(full_name, other_info) ==
    [raised |-> "no",
     entries |-> <<[full_name |-> full_name, other_info |-> other_info]>>]

\* the body of the loop of parse_un_xml for one INDIVIDUAL
UnEntry(children) ==
    IF ~ HasChild(children, "FIRST_NAME") THEN AttributeError
    ELSE IF ~ HasChild(children, "SECOND_NAME") THEN AttributeError
    ELSE IF strip(FirstChild(children, "FIRST_NAME").text \o <<" ">>
                      \o FirstChild(children, "SECOND_NAME").text) = <<>>
         THEN NoEntry
    ELSE IF ~ HasChild(children, "COMMENTS1") THEN AttributeError
    ELSE OneEntry(strip(FirstChild(children, "FIRST_NAME").text \o <<" ">>
                            \o FirstChild(children, "SECOND_NAME").text),
                  FirstChild(children, "COMMENTS1").text)

\* the body of the loop of parse_eu_xml for one sanctionEntity
EuEntry(children) ==
    IF ~ HasChild(children, "nameAlias") THEN NoEntry
    ELSE IF FirstChild(children, "nameAlias").wholeName = <<>> THEN NoEntry
    ELSE IF ~ HasChild(children, "regulationSummary") THEN AttributeError
    ELSE OneEntry(strip(FirstChild(children, "nameAlias").wholeName),
                  FirstChild(children, "regulationSummary").text)

\* the body of the loop of parse_canada_xml for one item
CanadaEntry(children) ==
    IF ~ HasChild(children, "name") THEN AttributeError
    ELSE IF FirstChild(children, "name").text = <<>> THEN NoEntry
    ELSE IF ~ HasChild(children, "description") THEN AttributeError
    ELSE OneEntry(strip(FirstChild(children, "name").text),
                  FirstChild(children, "description").text)

EntryOf(parser, record) ==
    IF parser = "parse_un_xml"
    THEN (IF record.tag = "INDIVIDUAL" THEN UnEntry(record.children) ELSE NoEntry)
    ELSE IF parser = "parse_eu_xml"
    THEN (IF record.tag = "sanctionEntity" THEN EuEntry(record.children) ELSE NoEntry)
    ELSE (IF record.tag = "item" THEN CanadaEntry(record.children) ELSE NoEntry)

\* entries.append after the entries of the records before; an AttributeError
\* leaves the loop and the function raises ValueError
AppendEntry(before, entry) ==
    IF before.raised # "no" THEN before
    ELSE IF entry.raised # "no" THEN [raised |-> "ValueError"]
    ELSE [raised |-> "no", entries |-> before.entries \o entry.entries]

\* the loop of a parser over the records of a well-formed document: the
\* entries, or the ValueError the except clause raises
RECURSIVE ParseRecords(_, _, _)
ParseRecords(parser, records, before) ==
    IF records = <<>> THEN before
    ELSE ParseRecords(parser, Tail(records),
                      AppendEntry(before, EntryOf(parser, Head(records))))

parse_un_xml(root) == ParseRecords("parse_un_xml", root, NoEntry)

parse_eu_xml(root) == ParseRecords("parse_eu_xml", root, NoEntry)

parse_canada_xml(root) == ParseRecords("parse_canada_xml", root, NoEntry)

\* the children a record can have: each expected child is there or not, a
\* name is a name or a blank, an empty element has no text
Jane == <<"J","a","n","e">>
Doe == <<"D","o","e">>
Note == <<"x">>

Optional(elements) == {<<>>} \cup {<<e>> : e \in elements}

UnRecords ==
    {Record("INDIVIDUAL", first \o second \o comments) :
        first \in Optional({Element("FIRST_NAME", Jane), Element("FIRST_NAME", Blank)}),
        second \in Optional({Element("SECOND_NAME", Doe), Element("SECOND_NAME", <<>>)}),
        comments \in Optional({Element("COMMENTS1", Note)})}

EuRecords ==
    {Record("sanctionEntity", alias \o summary) :
        alias \in Optional({NameAlias(Jane), NameAlias(Blank), NameAlias(<<>>)}),
        summary \in Optional({Element("regulationSummary", Note)})}

CanadaRecords ==
    {Record("item", item_name \o description) :
        item_name \in Optional({Element("name", Jane), Element("name", Blank),
                                Element("name", <<>>)}),
        description \in Optional({Element("description", Note)})}

RECURSIVE RecordsUpTo(_, _)
RecordsUpTo(pool, n) ==
    IF n = 0 THEN {<<>>}
    ELSE RecordsUpTo(pool, n - 1) \cup
         {Append(rs, r) : rs \in {x \in RecordsUpTo(pool, n - 1) : Len(x) = n - 1},
                          r \in pool}

AppParsers == {"parse_un_xml", "parse_eu_xml", "parse_canada_xml"}

RecordPool(parser) ==
    IF parser = "parse_un_xml" THEN UnRecords
    ELSE IF parser = "parse_eu_xml" THEN EuRecords
    ELSE CanadaRecords

\* the name the record gives: the two names of an INDIVIDUAL joined, the
\* wholeName of a sanctionEntity, the name of an item; '' when it has none
NameOfRecord(record) ==
    IF record.tag = "INDIVIDUAL"
    THEN strip((IF HasChild(record.children, "FIRST_NAME")
                THEN FirstChild(record.children, "FIRST_NAME").text ELSE <<>>)
               \o <<" ">> \o
               (IF HasChild(record.children, "SECOND_NAME")
                THEN FirstChild(record.children, "SECOND_NAME").text ELSE <<>>))
    ELSE IF record.tag = "sanctionEntity"
    THEN (IF HasChild(record.children, "nameAlias")
          THEN strip(FirstChild(record.children, "nameAlias").wholeName) ELSE <<>>)
    ELSE (IF HasChild(record.children, "name")
          THEN strip(FirstChild(record.children, "name").text) ELSE <<>>)

ExpectedChildren(record) ==
    IF record.tag = "INDIVIDUAL" THEN {"FIRST_NAME", "SECOND_NAME", "COMMENTS1"}
    ELSE IF record.tag = "sanctionEntity" THEN {"nameAlias", "regulationSummary"}
    ELSE {"name", "description"}

\* the record has every child its parser reads, and a name
IsComplete(record) ==
    /\ \A tag \in ExpectedChildren(record) : HasChild(record.children, tag)
    /\ NameOfRecord(record) # <<>>

\* the names of the complete records, in document order
RECURSIVE NamesOfComplete(_)
NamesOfComplete(records) ==
    IF records = <<>> THEN <<>>
    ELSE (IF IsComplete(Head(records)) THEN <<NameOfRecord(Head(records))>> ELSE <<>>)
         \o NamesOfComplete(Tail(records))

(***************************************************************************)
(* utils.py: incorporate_to_db.  parsed_data is the list of the items of   *)
(* the dict, an entry a dict with the keys type, ref, name and aliases; a  *)
(* row of the database is an Individual or an Alias.  No str of the model  *)
(* is longer than a column.                                                *)
(***************************************************************************)
\* the names bound at module level in utils.py
ModuleGlobals ==
    {"os", "logging", "ET", "hashlib", "datetime", "fuzz", "Environment",
     "FileSystemLoader", "HTML", "request", "db", "Individual", "Entity", "Alias",
     "Address", "Sanction", "Log", "DATA_DIR", "ensure_data_dir", "parse_xml",
     "update_sanctions_lists", "incorporate_to_db", "perform_screening",
     "generate_pdf_report", "log_activity"}

\* the locals of incorporate_to_db when the loop over the files starts
LocalsOfIncorporate == {"parsed_data", "filename", "entries", "e"}

\* a name incorporate_to_db can read: no builtin is called files
NameBound(n) == n \in LocalsOfIncorporate \cup ModuleGlobals

\* the dict files, a local of update_sanctions_lists
files ==
    <<"u","n","_","c","o","n","s","o","l","i","d","a","t","e","d",".","x","m","l">>
        :> "un" @@
    <<"u","k","_","c","o","n","s","o","l","i","d","a","t","e","d",".","x","m","l">>
        :> "uk"

\* the int 123 where a str is expected
IntValue == <<"int 123">>

IsStr(value) == value # IntValue

IndividualRow(entry, source) ==
    [table |-> "individual", reference_number |-> strip(entry.ref),
     name |-> strip(entry.name), source |-> source]

RECURSIVE AliasRows(_, _)
AliasRows(aliases, entry) ==
    IF aliases = <<>> THEN <<>>
    ELSE (IF strip(Head(aliases)) # <<>>
          THEN <<[table |-> "alias", individual |-> strip(entry.ref),
                  alias_name |-> strip(Head(aliases))]>>
          ELSE <<>>)
         \o AliasRows(Tail(aliases), entry)

\* reference_number is unique: flush raises IntegrityError on a second one
RefTaken(ref, rows) ==
    \E i \in DOMAIN rows : rows[i].table = "individual" /\ rows[i].reference_number = ref

\* the loop over the entries of one file: the rows of the session after it,
\* or the exception that left it
RECURSIVE AddEntries(_, _, _, _)
AddEntries(entries, source, pending, committed) ==
    IF entries = <<>> THEN [raised |-> "no", rows |-> pending]
    ELSE IF ~ IsStr(Head(entries).ref) \/ ~ IsStr(Head(entries).name)
         THEN [raised |-> "AttributeError"]
    ELSE IF strip(Head(entries).ref) = <<>> \/ strip(Head(entries).name) = <<>>
         THEN AddEntries(Tail(entries), source, pending, committed)
    ELSE IF Head(entries).type \notin {"individual", "mixed"}
         THEN AddEntries(Tail(entries), source, pending, committed)
    ELSE IF RefTaken(strip(Head(entries).ref), committed \o pending)
         THEN [raised |-> "IntegrityError"]
    ELSE AddEntries(Tail(entries), source,
                    pending \o <<IndividualRow(Head(entries), source)>>
                            \o AliasRows(Head(entries).aliases, Head(entries)),
                    committed)

\* the loop over the files: source = files[filename] is the first statement
\* of its body
RECURSIVE AddFiles(_, _, _)
AddFiles(data, done, committed) ==
    IF data = <<>> \/ done.raised # "no" THEN done
    ELSE IF ~ NameBound("files") THEN [raised |-> "NameError"]
    ELSE IF Head(data).filename \notin DOMAIN files THEN [raised |-> "KeyError"]
    ELSE AddFiles(Tail(data),
                  AddEntries(Head(data).entries, files[Head(data).filename],
                             done.rows, committed),
                  committed)

\* commit when the loops end, rollback and ValueError on any exception
CommitOrRollback(done, committed) ==
    IF done.raised = "no"
    THEN [raised |-> "no", rows |-> committed \o done.rows]
    ELSE [raised |-> "ValueError", cause |-> done.raised, rows |-> committed]

incorporate_to_db(data, committed) ==
    CommitOrRollback(AddFiles(data, [raised |-> "no", rows |-> <<>>], committed),
                     committed)

\* the entries of the model
DbEntries ==
    [type : {"individual", "entity"},
     ref : {<<"R","1">>, <<"R","2">>},
     name : {Jane, IntValue},
     aliases : {<<>>, <<Al>>}]

DbFiles ==
    {[filename |-> f, entries |-> es] :
        f \in DOMAIN files, es \in RecordsUpTo(DbEntries, MaxRecords)}

\* the tables before the call: empty, or one Individual listed before
ExistingRows ==
    {<<>>, <<[table |-> "individual", reference_number |-> <<"R","0">>,
              name |-> Doe, source |-> "un"]>>}

\* every entry is one the function can store: two str, and each ref once
AllValid(data) ==
    /\ data # <<>>
    /\ \A f \in DOMAIN data : \A i \in DOMAIN data[f].entries :
           /\ IsStr(data[f].entries[i].ref)
           /\ IsStr(data[f].entries[i].name)
           /\ \A j \in DOMAIN data[f].entries :
                  i # j => data[f].entries[i].ref # data[f].entries[j].ref

SomeInvalid(data) ==
    \E f \in DOMAIN data : \E i \in DOMAIN data[f].entries :
        ~ IsStr(data[f].entries[i].ref) \/ ~ IsStr(data[f].entries[i].name)

\* every Individual of the data and every alias of it is a row
AllStored(data, rows) ==
    \A f \in DOMAIN data : \A i \in DOMAIN data[f].entries :
        data[f].entries[i].type = "individual" =>
            /\ RefTaken(strip(data[f].entries[i].ref), rows)
            /\ \A a \in DOMAIN data[f].entries[i].aliases :
                   \E r \in DOMAIN rows :
                       /\ rows[r].table = "alias"
                       /\ rows[r].individual = strip(data[f].entries[i].ref)
                       /\ rows[r].alias_name = data[f].entries[i].aliases[a]

(***************************************************************************)
(* routes.py: login, logout and login_required.  A user is a row of the    *)
(* user table, its id its position; the session is the set of its items.   *)
(* check_password compares the hash of the password given with the hash    *)
(* stored, which agree for equal passwords.                                *)
(***************************************************************************)
MaxUsers == 2

Usernames == {"admin", "test", "bob"}

Passwords == {"AdminPass123!", "TestPass123!"}

RECURSIVE UserTables(_)
UserTables(n) ==
    IF n = 0 THEN {<<>>}
    ELSE UserTables(n - 1) \cup
         {Append(rows, [id |-> n, username |-> u, password |-> p]) :
             rows \in {t \in UserTables(n - 1) :
                          Len(t) = n - 1},
             u \in Usernames, p \in Passwords}

UniqueUsernames(rows) ==
    \A i, j \in DOMAIN rows : i # j => rows[i].username # rows[j].username

\* User.query.filter_by(username=...).first(): the rows found, at most one
FilterByUsername(rows, username) ==
    {rows[i] : i \in {k \in DOMAIN rows : rows[k].username = username}}

\* User.check_password
check_password(user, password) == user.password = password

HasUserId(cookie) == \E item \in cookie : item[1] = "user_id"

\* session['user_id'] = id
SetUserId(cookie, id) ==
    {item \in cookie : item[1] # "user_id"} \cup {<<"user_id", id>>}

Request(method, path, username, password) ==
    [method |-> method, path |-> path, username |-> username, password |-> password]

NoRequest == Request("none", "", "", "")

Response(status, body, handler_ran, request) ==
    [status |-> status, body |-> body, handler_ran |-> handler_ran, request |-> request]

\* login for a POST: the user looked up is always 'admin'
login_session(rows, cookie, password) ==
    IF \E user \in FilterByUsername(rows, "admin") : check_password(user, password)
    THEN SetUserId(cookie, (CHOOSE user \in FilterByUsername(rows, "admin") : TRUE).id)
    ELSE cookie

login_response(rows, request) ==
    IF \E user \in FilterByUsername(rows, "admin") :
           check_password(user, request.password)
    THEN Response(302, "main.dashboard", FALSE, request)
    ELSE Response(200, "login.html", FALSE, request)

\* login_required around dashboard
decorated_function(cookie, request) ==
    IF ~ HasUserId(cookie)
    THEN Response(302, "auth.login", FALSE, request)
    ELSE Response(200, "dashboard.html", TRUE, request)

\* the user table has a row with the username and the password
Registered(rows, username, password) ==
    \E user \in FilterByUsername(rows, username) : user.password = password

\* the user table has a row with the username and another password
WrongPassword(rows, username, password) ==
    \E user \in FilterByUsername(rows, username) : user.password # password

(***************************************************************************)
(* sanctions_service.py: one format parser given the root of one document  *)
(* of one record.  A Designation holds Name and Name6 elements, a           *)
(* sanctionEntity nameAlias elements, an entity formattedFullName elements; *)
(* a name is a plain name, an e-mail address or a number.                   *)
(***************************************************************************)
Email == <<"a","@","b",".","c","o">>
Twelve == <<"1","2">>

ServiceElements(tag) ==
    CASE tag = "Designation" ->
             {Element("Name", Al), Element("Name", Alpha), Element("Name", Email),
              Element("Name", Twelve),
              Element("Name6", Al), Element("Name6", Alpha), Element("Name6", Email)}
      [] tag = "sanctionEntity" -> {NameAlias(Al), NameAlias(Alpha), NameAlias(Email)}
      [] tag = "entity" ->
             {Element("formattedFullName", Al), Element("formattedFullName", Alpha),
              Element("formattedFullName", Email)}

RECURSIVE ServiceChildrenUpTo(_, _)
ServiceChildrenUpTo(tag, n) ==
    IF n = 0 THEN {<<>>}
    ELSE ServiceChildrenUpTo(tag, n - 1) \cup
         {Append(c, x) : c \in {y \in ServiceChildrenUpTo(tag, n - 1) : Len(y) = n - 1},
                         x \in ServiceElements(tag)}

ServiceDocuments ==
    UNION {{<<Record(tag, children)>> : children \in ServiceChildrenUpTo(tag, MaxNames)} :
              tag \in {"Designation", "sanctionEntity", "entity"}}

FormatParsers ==
    {"_parse_uk_format", "_parse_eu_format", "_parse_un_format", "_parse_ofac_format"}

ServiceParsers == FormatParsers \cup {"_parse_generic"}

\* the tags a format parser takes names from
NameTags(parser) ==
    CASE parser = "_parse_uk_format" -> {"Name", "Name6"}
      [] parser = "_parse_un_format" -> {"Name6"}
      [] parser = "_parse_eu_format" -> {"nameAlias"}
      [] parser = "_parse_ofac_format" -> {"formattedFullName"}
      [] OTHER -> {}

\* the name an element carries: its wholeName attribute or its text, stripped
NameOfChild(child) ==
    IF child.tag = "nameAlias" THEN strip(child.wholeName) ELSE strip(child.text)

\* where in the record a parser first meets a name, 0 when it never does
FirstSeen(name, children, parser) ==
    LET at == {i \in DOMAIN children :
                  children[i].tag \in NameTags(parser) /\ NameOfChild(children[i]) = name}
    IN IF at = {} THEN 0 ELSE CHOOSE i \in at : \A j \in at : i <= j

(***************************************************************************)
(* sanctions_service.py: the construction of a SanctionsService.  The       *)
(* watchlist directory is given by the entities its files parse to, and the *)
(* hashes of its files by the same value: two directories have the same     *)
(* hashes when they have the same files.                                    *)
(***************************************************************************)
ServiceEntities ==
    {Entity("UN", <<John>>), Entity("UK", <<John, JohnDoe>>), Entity("OFAC", <<AcmeLtd>>)}

\* what _parse_all_sanctions returns for the directories of the model
RECURSIVE ParsedDirectories(_)
ParsedDirectories(n) ==
    IF n = 0 THEN {<<>>}
    ELSE ParsedDirectories(n - 1) \cup
         {Append(d, e) : d \in {x \in ParsedDirectories(n - 1) : Len(x) = n - 1},
                         e \in ServiceEntities}

\* the cache file: absent, not a pickle, or the dict the constructor dumps
NoCache == [state |-> "absent", entities |-> <<>>, file_hashes |-> <<>>]

CorruptCache == [state |-> "corrupt", entities |-> <<>>, file_hashes |-> <<>>]

Pickle(entities, file_hashes) ==
    [state |-> "pickle", entities |-> entities, file_hashes |-> file_hashes]

CacheFiles(n) ==
    {NoCache, CorruptCache} \cup {Pickle(d, d) : d \in ParsedDirectories(n)}

\* the entries _build_name_index appends for the names of entity k
RECURSIVE NameEntries(_, _)
NameEntries(names, k) ==
    IF names = <<>> THEN <<>>
    ELSE <<[lower |-> lower(Head(names)), entity |-> k, name |-> Head(names)]>>
         \o NameEntries(Tail(names), k)

RECURSIVE NameIndexFrom(_, _)
NameIndexFrom(entities, k) ==
    IF k > Len(entities) THEN <<>>
    ELSE NameEntries(entities[k].names, k) \o NameIndexFrom(entities, k + 1)

_build_name_index(entities) == NameIndexFrom(entities, 1)

_have_files_changed(file_hashes, directory) == file_hashes # directory

\* a SanctionsService object after __init__
ServiceObject(entities, file_hashes, names) ==
    [constructed |-> TRUE, sanctions_entities |-> entities,
     file_hashes |-> file_hashes, all_names |-> names]

\* __init__ and _load_or_parse_sanctions: the object and the cache file they
\* leave.  _build_name_index is called inside the branch that parses fresh.
_load_or_parse_sanctions(cache, directory) ==
    IF cache.state = "pickle" /\ ~ _have_files_changed(cache.file_hashes, directory)
    THEN [object |-> ServiceObject(cache.entities, cache.file_hashes, <<>>),
          cache |-> cache]
    ELSE [object |-> ServiceObject(directory, directory, _build_name_index(directory)),
          cache |-> Pickle(directory, directory)]

(***************************************************************************)
(* robust_xml_parser.py: parse_file and its cache.  A file is given by the  *)
(* root its content parses to, and its hash by the same value.              *)
(***************************************************************************)
MaxParses == 3

CachedDocuments ==
    {<<Record("Designation", <<Element("Name", Alpha)>>)>>,
     <<Record("sanctionEntity", <<NameAlias(Al)>>)>>,
     <<Record("Designation", <<Element("Name", Alpha)>>),
       Record("sanctionEntity", <<NameAlias(Al), NameAlias(Alpha)>>)>>,
     <<Record("Designation", <<>>)>>}

\* parse_file: what it can return and the cache it leaves.  A strategy that
\* extracts no entity is followed by the next, which extracts none either.
parse_file(parsed, document, source_name) ==
    IF document \in DOMAIN parsed
    THEN {[entities |-> parsed[document], parsed_files |-> parsed]}
    ELSE {[entities |-> e,
           parsed_files |-> IF e # <<>> THEN (document :> e) @@ parsed ELSE parsed] :
             e \in _extract_entities(document, source_name)}

(***************************************************************************)
(* auth.py: the system_auth row and verify_password.  Time is counted in    *)
(* units of ten minutes.                                                    *)
(***************************************************************************)
\* failed_attempts >= 5
MaxFailedAttempts == 5

\* timedelta(minutes=30)
LockDuration == 3

MaxClock == 5
MaxAttempts == 7

AuthPasswords == {"master", "guess"}

\* locked_until: NULL, or the time the lock ends
Unlocked == [null |-> TRUE, at |-> 0]

LockedUntil(t) == [null |-> FALSE, at |-> t]

AuthRow(hash, failed_attempts, locked_until) ==
    [master_password_hash |-> hash, failed_attempts |-> failed_attempts,
     locked_until |-> locked_until]

\* locked_until and datetime.now() < datetime.fromisoformat(locked_until)
IsLocked(row, clock) == ~ row.locked_until.null /\ clock < row.locked_until.at

\* bcrypt.checkpw raises ValueError on the empty hash the row holds before
\* setup; get_cursor rolls back and the exception leaves the call
_check_password(password, stored_hash) ==
    IF stored_hash = "" THEN "ValueError"
    ELSE IF password = stored_hash THEN "True" ELSE "False"

\* the last call of verify_password: its password, the row and the time it
\* found, and its value
Call(password, row, clock, returned) ==
    [password |-> password, row |-> row, at |-> clock, returned |-> returned]

NoCall == Call("", AuthRow("", 0, Unlocked), 0, "not called")

\* what a call leaves: its value and the row
Verified(returned, row) == [returned |-> returned, row |-> row]

\* verify_password that counts a failed attempt while the account is locked
verify_password_counting(row, clock, password) ==
    IF IsLocked(row, clock)
    THEN Verified("False", AuthRow(row.master_password_hash, row.failed_attempts + 1,
                                   row.locked_until))
    ELSE IF _check_password(password, row.master_password_hash) = "ValueError"
         THEN Verified("ValueError", row)
    ELSE IF _check_password(password, row.master_password_hash) = "True"
         THEN Verified("True", AuthRow(row.master_password_hash, 0, Unlocked))
    ELSE IF row.failed_attempts + 1 >= MaxFailedAttempts
         THEN Verified("False", AuthRow(row.master_password_hash, row.failed_attempts + 1,
                                        LockedUntil(clock + LockDuration)))
    ELSE Verified("False", AuthRow(row.master_password_hash, row.failed_attempts + 1,
                                   row.locked_until))

verify_password(row, clock, password) ==
    IF IsLocked(row, clock) THEN Verified("False", row)
    ELSE IF _check_password(password, row.master_password_hash) = "ValueError"
         THEN Verified("ValueError", row)
    ELSE IF _check_password(password, row.master_password_hash) = "True"
         THEN Verified("True", AuthRow(row.master_password_hash, 0, Unlocked))
    ELSE IF row.failed_attempts + 1 >= MaxFailedAttempts
         THEN Verified("False", AuthRow(row.master_password_hash, row.failed_attempts + 1,
                                        LockedUntil(clock + LockDuration)))
    ELSE Verified("False", AuthRow(row.master_password_hash, row.failed_attempts + 1,
                                   row.locked_until))

(***************************************************************************)
(* State.                                                                  *)
(***************************************************************************)
VARIABLES
    sanctions_entities,   \* EnhancedSanctionsMatcher.sanctions_entities
    name_index,           \* EnhancedSanctionsMatcher.name_index
    query,                \* the name being screened
    threshold,            \* the threshold of the last find_matches call, in tenths
    result,               \* what that call returned or raised
    nm_input,             \* a name given to _normalize_name
    nm_once,              \* its normal form
    nm_twice,             \* the normal form of its normal form
    rk_score,             \* a match score given to _calculate_risk_score, in tenths
    rk_lists,             \* the list types given with it
    rk_out,               \* what the call returned or raised
    xml_files,            \* _parse_all_sanctions: the files glob listed
    file_pos,             \* the position of its loop in xml_files
    root,                 \* its local root: unbound, or the last tree parsed
    all_entities,         \* its local all_entities
    returned,             \* what it returned to its caller
    sanctions_service,    \* the global sanctions_service of sanctions_service.py
    heap,                 \* the EnhancedSanctionsMatcher objects ever constructed
    _matcher_instance,    \* the global of enhanced_matcher.py: 0 is None
    pc,                   \* where every thread is
    held,                 \* the matcher a thread constructs or was returned
    build_pos,            \* the entity the _build_index loop of a thread is at
    cursor,               \* the index entries the find_matches of a thread read
    reloads,              \* the reloads started
    calls,                \* the screenings started
    parser_called,        \* the watchlist parser a document is given to
    parser_input,          \* the source name and the root it is given
    parser_out,           \* what the parser returned or raised
    parsed_data,          \* utils.py: the argument of incorporate_to_db
    db_rows,              \* the committed rows of the database
    db_out,               \* what incorporate_to_db returned or raised
    users,                \* the rows of the user table
    session,              \* the Flask session of the client
    response,             \* the last response the client received
    data_dir,             \* sanctions_service.py: what the watchlist directory parses to
    cache_file,           \* the cache file of SanctionsService
    constructed,          \* the SanctionsService object last constructed
    parsed_files,         \* RobustXMLParser.parsed_files
    parse_calls,          \* the parse_file calls made
    system_auth,          \* auth.py: the row of the system_auth table
    now,                  \* datetime.now()
    auth_out              \* the last call of verify_password

matcherVars == <<sanctions_entities, name_index, query, threshold, result>>
normVars == <<nm_input, nm_once, nm_twice>>
riskVars == <<rk_score, rk_lists, rk_out>>
parseVars == <<xml_files, file_pos, root, all_entities, returned>>
reloadVars == <<sanctions_service, heap, _matcher_instance, pc, held, build_pos,
                cursor, reloads, calls>>
documentVars == <<parser_called, parser_input, parser_out>>
dbVars == <<parsed_data, db_rows, db_out>>
webVars == <<users, session, response>>
serviceVars == <<data_dir, cache_file, constructed>>
cacheVars == <<parsed_files, parse_calls>>
authVars == <<system_auth, now, auth_out>>
appVars == <<documentVars, dbVars, webVars, serviceVars, cacheVars, authVars>>
vars == <<matcherVars, normVars, riskVars, parseVars, reloadVars, appVars>>

\* a value no str equals: the call has not been made
NotRun == <<"not run">>

NoResult == [raised |-> "not called", matches |-> <<>>]

MatcherIdle ==
    /\ sanctions_entities = <<>>
    /\ name_index = <<>>
    /\ query = NotRun
    /\ threshold = DefaultThreshold
    /\ result = NoResult

NormIdle ==
    /\ nm_input = NotRun
    /\ nm_once = NotRun
    /\ nm_twice = NotRun

RiskIdle ==
    /\ rk_score = 0
    /\ rk_lists = {}
    /\ rk_out = [raised |-> "not called"]

\* the local root before its first assignment
Unbound == [bound |-> FALSE, tree |-> <<>>]

NotReturned == [done |-> FALSE, entities |-> <<>>]

ParseIdle ==
    /\ xml_files = <<>>
    /\ file_pos = 1
    /\ root = Unbound
    /\ all_entities = <<>>
    /\ returned = NotReturned

NotCalled == [raised |-> "not called"]

DocumentIdle ==
    /\ parser_called = "none"
    /\ parser_input = <<>>
    /\ parser_out = NotCalled

DbIdle ==
    /\ parsed_data = <<>>
    /\ db_rows = <<>>
    /\ db_out = NotCalled

\* no user registered, no cookie, no request made
WebIdle ==
    /\ users = <<>>
    /\ session = {}
    /\ response = Response(0, "", FALSE, NoRequest)

ServiceIdle ==
    /\ data_dir = <<>>
    /\ cache_file = NoCache
    /\ constructed = [constructed |-> FALSE]

CacheIdle ==
    /\ parsed_files = <<>>
    /\ parse_calls = 0

AuthIdle ==
    /\ system_auth = AuthRow("", 0, Unlocked)
    /\ now = 0
    /\ auth_out = NoCall

AppIdle == DocumentIdle /\ DbIdle /\ WebIdle /\ ServiceIdle /\ CacheIdle /\ AuthIdle

Readers == {"reader1", "reader2"}

Reloader == "reloader"

Threads == Readers \cup {Reloader}

\* the globals of the two modules once imported, no thread running
ReloadIdle ==
    /\ sanctions_service = [loaded |-> FALSE, sanctions_entities |-> <<>>]
    /\ heap = <<>>
    /\ _matcher_instance = 0
    /\ pc = [t \in Threads |-> "idle"]
    /\ held = [t \in Threads |-> 0]
    /\ build_pos = [t \in Threads |-> 1]
    /\ cursor = [t \in Readers |-> 0]
    /\ reloads = 0
    /\ calls = 0

(***************************************************************************)
(* The matcher: built from an entity list, then queried.                   *)
(***************************************************************************)
Init ==
    /\ sanctions_entities \in EntityLists
    /\ name_index = _build_index(sanctions_entities)
    /\ query \in QueryPool
    /\ threshold = DefaultThreshold
    /\ result = NoResult
    /\ NormIdle
    /\ RiskIdle
    /\ ParseIdle
    /\ ReloadIdle
    /\ AppIdle

\* matcher.find_matches(query, t)
FindMatches ==
    \E t \in Thresholds :
        /\ threshold' = t
        /\ result' = find_matches(name_index, sanctions_entities, query, t)
        /\ UNCHANGED <<sanctions_entities, name_index, query,
                       normVars, riskVars, parseVars, reloadVars, appVars>>

Next == FindMatches

Spec == Init /\ [][Next]_vars

(***************************************************************************)
(* Normalisation applied twice to one input.                               *)
(***************************************************************************)
NormAlphabet == {"a", "A", " ", "?", "_", "U+00E9", "U+5317"}

InitNorm ==
    /\ nm_input \in StringsUpTo(NormAlphabet, MaxStrLen)
    /\ nm_once = NotRun
    /\ nm_twice = NotRun
    /\ MatcherIdle
    /\ RiskIdle
    /\ ParseIdle
    /\ ReloadIdle
    /\ AppIdle

NormalizeOnce ==
    /\ nm_once = NotRun
    /\ nm_input # NotRun
    /\ nm_once' = _normalize_name(nm_input)
    /\ UNCHANGED <<nm_input, nm_twice, matcherVars, riskVars, parseVars, reloadVars, appVars>>

NormalizeAgain ==
    /\ nm_once # NotRun
    /\ nm_twice = NotRun
    /\ nm_twice' = _normalize_name(nm_once)
    /\ UNCHANGED <<nm_input, nm_once, matcherVars, riskVars, parseVars, reloadVars, appVars>>

NextNorm == NormalizeOnce \/ NormalizeAgain

SpecNorm == InitNorm /\ [][NextNorm]_vars

(***************************************************************************)
(* The risk score of any match score under any set of list types.          *)
(***************************************************************************)
\* the highest score a layer returns, 100.0, in tenths
MaxScore == 1000

RiskListTypes == {"UN", "UNSC", "OFAC", "UK", "Generic", "un", ""}

InitRisk ==
    /\ rk_score \in 0..MaxScore
    /\ rk_lists \in SUBSET RiskListTypes
    /\ rk_out = [raised |-> "not called"]
    /\ MatcherIdle
    /\ NormIdle
    /\ ParseIdle
    /\ ReloadIdle
    /\ AppIdle

CalculateRiskScore ==
    /\ rk_out = [raised |-> "not called"]
    /\ rk_out' = _calculate_risk_score(rk_score, rk_lists)
    /\ UNCHANGED <<rk_score, rk_lists, matcherVars, normVars, parseVars, reloadVars, appVars>>

NextRisk == CalculateRiskScore

SpecRisk == InitRisk /\ [][NextRisk]_vars

(***************************************************************************)
(* sanctions_service.py: _parse_all_sanctions over a directory.            *)
(***************************************************************************)
InitParse ==
    /\ xml_files \in {d \in Directories(MaxFiles) : DistinctNames(d)}
    /\ file_pos = 1
    /\ root = Unbound
    /\ all_entities = <<>>
    /\ returned = NotReturned
    /\ MatcherIdle
    /\ NormIdle
    /\ RiskIdle
    /\ ReloadIdle
    /\ AppIdle

\* one turn of the loop, ET.parse returning a tree
ParseFile ==
    /\ file_pos <= Len(xml_files)
    /\ xml_files[file_pos].wellformed
    /\ root' = [bound |-> TRUE, tree |-> xml_files[file_pos].document]
    /\ all_entities' = all_entities \o
            ParseByFilename(lower(xml_files[file_pos].name),
                            xml_files[file_pos].document, xml_files[file_pos].name)
    /\ file_pos' = file_pos + 1
    /\ UNCHANGED <<xml_files, returned, matcherVars, normVars, riskVars, reloadVars, appVars>>

\* one turn of the loop, ET.parse raising: the except clause gives the
\* generic parser the root the local holds, and a NameError when it holds
\* none is caught
ParseFallback ==
    /\ file_pos <= Len(xml_files)
    /\ ~ xml_files[file_pos].wellformed
    /\ all_entities' = all_entities \o
            (IF root.bound THEN _parse_generic(root.tree, xml_files[file_pos].name)
             ELSE <<>>)
    /\ file_pos' = file_pos + 1
    /\ UNCHANGED <<xml_files, root, returned, matcherVars, normVars, riskVars, reloadVars, appVars>>

ReturnEntities ==
    /\ file_pos > Len(xml_files)
    /\ ~ returned.done
    /\ returned' = [done |-> TRUE, entities |-> all_entities]
    /\ UNCHANGED <<xml_files, file_pos, root, all_entities,
                   matcherVars, normVars, riskVars, reloadVars, appVars>>

NextParse == ParseFile \/ ParseFallback \/ ReturnEntities

SpecParse == InitParse /\ [][NextParse]_vars

(***************************************************************************)
(* enhanced_matcher.py: get_matcher_instance and reload_matcher run by     *)
(* threads, one reloading and the others screening.  A step is what a      *)
(* thread does between two points where another thread can run.            *)
(***************************************************************************)
MaxObjects == 3
MaxReloads == 1
MaxCalls == 2

\* what a SanctionsService constructed after n reloads parses from the
\* watchlist directory: the lists are replaced between two reloads
Watchlists(n) ==
    IF n % 2 = 0
    THEN <<Entity("UN", <<John>>)>>
    ELSE <<Entity("UN", <<John>>), Entity("OFAC", <<AcmeLtd>>)>>

Service(entities) == [loaded |-> TRUE, sanctions_entities |-> entities]

InitReload ==
    /\ ReloadIdle
    /\ MatcherIdle
    /\ NormIdle
    /\ RiskIdle
    /\ ParseIdle
    /\ AppIdle

\* ConstructorReturned for an object that is assigned as soon as it exists
ConstructorReturned_at_once(obj, pos) == TRUE

\* __init__ has returned: its _build_index loop is past the last entity.
\* The assignment to _matcher_instance takes the value of the call.
ConstructorReturned(obj, pos) == pos > Len(obj.sanctions_entities)

\* reload_sanctions_data: a new SanctionsService replaces the global
ReloadSanctionsData ==
    /\ pc[Reloader] = "idle"
    /\ reloads < MaxReloads
    /\ sanctions_service' = Service(Watchlists(reloads + 1))
    /\ reloads' = reloads + 1
    /\ pc' = [pc EXCEPT ![Reloader] = "reload_matcher"]
    /\ UNCHANGED <<heap, _matcher_instance, held, build_pos, cursor, calls,
                   matcherVars, normVars, riskVars, parseVars, appVars>>

\* reload_matcher: _matcher_instance = None, then get_matcher_instance()
ReloadMatcher ==
    /\ pc[Reloader] = "reload_matcher"
    /\ _matcher_instance' = 0
    /\ pc' = [pc EXCEPT ![Reloader] = "get"]
    /\ UNCHANGED <<sanctions_service, heap, held, build_pos, cursor, reloads, calls,
                   matcherVars, normVars, riskVars, parseVars, appVars>>

\* a request handler starts screening a name
Screen(t) ==
    /\ pc[t] = "idle"
    /\ calls < MaxCalls
    /\ calls' = calls + 1
    /\ pc' = [pc EXCEPT ![t] = "get"]
    /\ UNCHANGED <<sanctions_service, heap, _matcher_instance, held, build_pos, cursor,
                   reloads, matcherVars, normVars, riskVars, parseVars, appVars>>

\* get_matcher_instance: if _matcher_instance is None
GetMatcherInstance(t) ==
    /\ pc[t] = "get"
    /\ pc' = [pc EXCEPT ![t] = IF _matcher_instance = 0 THEN "init" ELSE "return"]
    /\ UNCHANGED <<sanctions_service, heap, _matcher_instance, held, build_pos, cursor,
                   reloads, calls, matcherVars, normVars, riskVars, parseVars, appVars>>

\* get_matcher_instance: if sanctions_service is None: init_sanctions_service()
InitSanctionsService(t) ==
    /\ pc[t] = "init"
    /\ sanctions_service' =
          IF sanctions_service.loaded THEN sanctions_service
          ELSE Service(Watchlists(reloads))
    /\ pc' = [pc EXCEPT ![t] = "construct"]
    /\ UNCHANGED <<heap, _matcher_instance, held, build_pos, cursor, reloads, calls,
                   matcherVars, normVars, riskVars, parseVars, appVars>>

\* __init__ up to its call of _build_index: the new object has an empty index
Construct(t) ==
    /\ pc[t] = "construct"
    /\ Len(heap) < MaxObjects
    /\ heap' = Append(heap, [sanctions_entities |-> sanctions_service.sanctions_entities,
                             name_index |-> <<>>])
    /\ held' = [held EXCEPT ![t] = Len(heap) + 1]
    /\ build_pos' = [build_pos EXCEPT ![t] = 1]
    /\ pc' = [pc EXCEPT ![t] = "build"]
    /\ UNCHANGED <<sanctions_service, _matcher_instance, cursor, reloads, calls,
                   matcherVars, normVars, riskVars, parseVars, appVars>>

\* one turn of the loop of _build_index
BuildIndexStep(t) ==
    /\ pc[t] = "build"
    /\ build_pos[t] <= Len(heap[held[t]].sanctions_entities)
    /\ heap' = [heap EXCEPT ![held[t]].name_index =
                    @ \o EntriesOf(heap[held[t]].sanctions_entities[build_pos[t]],
                                   build_pos[t])]
    /\ build_pos' = [build_pos EXCEPT ![t] = @ + 1]
    /\ UNCHANGED <<sanctions_service, _matcher_instance, pc, held, cursor, reloads, calls,
                   matcherVars, normVars, riskVars, parseVars, appVars>>

\* get_matcher_instance: _matcher_instance = EnhancedSanctionsMatcher(...)
Publish(t) ==
    /\ pc[t] = "build"
    /\ ConstructorReturned(heap[held[t]], build_pos[t])
    /\ _matcher_instance' = held[t]
    /\ pc' = [pc EXCEPT ![t] = "return"]
    /\ UNCHANGED <<sanctions_service, heap, held, build_pos, cursor, reloads, calls,
                   matcherVars, normVars, riskVars, parseVars, appVars>>

\* get_matcher_instance: return _matcher_instance, the global read again
ReturnInstance(t) ==
    /\ pc[t] = "return"
    /\ held' = [held EXCEPT ![t] = _matcher_instance]
    /\ pc' = [pc EXCEPT ![t] = IF t \in Readers THEN "call" ELSE "idle"]
    /\ UNCHANGED <<sanctions_service, heap, _matcher_instance, build_pos, cursor,
                   reloads, calls, matcherVars, normVars, riskVars, parseVars, appVars>>

\* matcher.find_matches(...) on what get_matcher_instance returned: None has
\* no find_matches
CallFindMatches(t) ==
    /\ pc[t] = "call"
    /\ pc' = [pc EXCEPT ![t] = IF held[t] = 0 THEN "AttributeError" ELSE "scan"]
    /\ cursor' = [cursor EXCEPT ![t] = 0]
    /\ UNCHANGED <<sanctions_service, heap, _matcher_instance, held, build_pos,
                   reloads, calls, matcherVars, normVars, riskVars, parseVars, appVars>>

\* find_matches: one turn of the loop over self.name_index
ScanEntry(t) ==
    /\ pc[t] = "scan"
    /\ cursor[t] < Len(heap[held[t]].name_index)
    /\ cursor' = [cursor EXCEPT ![t] = @ + 1]
    /\ UNCHANGED <<sanctions_service, heap, _matcher_instance, pc, held, build_pos,
                   reloads, calls, matcherVars, normVars, riskVars, parseVars, appVars>>

\* find_matches: the loop ends where the list ends, and the call returns
ReturnMatches(t) ==
    /\ pc[t] = "scan"
    /\ cursor[t] >= Len(heap[held[t]].name_index)
    /\ pc' = [pc EXCEPT ![t] = "idle"]
    /\ UNCHANGED <<sanctions_service, heap, _matcher_instance, held, build_pos, cursor,
                   reloads, calls, matcherVars, normVars, riskVars, parseVars, appVars>>

NextReload ==
    \/ ReloadSanctionsData
    \/ ReloadMatcher
    \/ \E t \in Threads :
          \/ GetMatcherInstance(t)
          \/ InitSanctionsService(t)
          \/ Construct(t)
          \/ BuildIndexStep(t)
          \/ Publish(t)
          \/ ReturnInstance(t)
    \/ \E t \in Readers :
          \/ Screen(t)
          \/ CallFindMatches(t)
          \/ ScanEntry(t)
          \/ ReturnMatches(t)

SpecReload == InitReload /\ [][NextReload]_vars

\* C9: the risk score of a result is at most 100, for every match score in
\* 0..100 and every set of list types, whichever multiplier applies.
C9_RiskScoreAtMost100 == rk_out.raised = "no" => rk_out.risk_score <= 1000

\* a multi-jurisdictional score that the multiplier would take above 100
C9_Witness ==
    /\ rk_out.raised = "no"
    /\ rk_out.is_multi_jurisdictional = "true"
    /\ rk_score < 1000
    /\ rk_score * 115 > 1000 * 100
    /\ rk_out.risk_score = 1000

\* C8: _normalize_name is idempotent: normalizing a normalized name changes
\* nothing.
C8_NormalizeIdempotent == nm_twice # NotRun => nm_twice = nm_once

(***************************************************************************)
(* Properties of find_matches.                                             *)
(***************************************************************************)
Returned == result.raised = "no"

Matches == {result.matches[k] : k \in DOMAIN result.matches}

\* the score the layers give index entry i for the query, and whether it
\* meets the threshold of the call
EntryScore(i) ==
    LET qn == Normalized(query) IN ScoreEntry(qn, _tokenize(qn), name_index[i])

IsHit(i) == EntryScore(i).score # None /\ AtLeast(EntryScore(i).score, threshold)

HitsOf(e) == {i \in DOMAIN name_index : name_index[i].entity = e /\ IsHit(i)}

LayerRank(layer) ==
    CASE layer = "exact" -> 1 [] layer = "token" -> 2
      [] layer = "phonetic" -> 3 [] layer = "fuzzy" -> 4 [] OTHER -> 5

\* C1: find_matches returns at most one result per entity, however many of
\* the entity's names score at or above the threshold.
C1_OneResultPerEntity ==
    Returned =>
        \A j, k \in DOMAIN result.matches :
            j # k => result.matches[j].entity_id # result.matches[k].entity_id

\* two names of one entity meet the threshold and the entity is returned
C1_Witness ==
    /\ Returned
    /\ \E m \in Matches : Cardinality(HitsOf(m.entity_id)) >= 2

\* C2: the result returned for an entity carries the highest score among the
\* entity's names that meet the threshold, a tie going to the earliest layer,
\* whatever the order of the names in the index.
C2_HighestScoreKept ==
    Returned =>
        \A m \in Matches :
            \A i \in HitsOf(m.entity_id) :
                \/ Round1(EntryScore(i).score) < m.score
                \/ /\ Round1(EntryScore(i).score) = m.score
                   /\ LayerRank(m.match_layer) <= LayerRank(EntryScore(i).match_layer)

C7_ThresholdMonotone ==
    [][(Returned /\ result'.raised = "no" /\ threshold <= threshold') =>
          /\ Len(result'.matches) <= Len(result.matches)
          /\ {result'.matches[k].entity_id : k \in DOMAIN result'.matches}
                \subseteq {m.entity_id : m \in Matches}]_vars

\* a call above the default threshold that returns some of the entities the
\* default threshold returns, and not all of them
C7_Witness ==
    /\ Returned
    /\ threshold > DefaultThreshold
    /\ Matches # {}
    /\ \E e \in DOMAIN sanctions_entities :
          /\ \A m \in Matches : m.entity_id # e
          /\ \E i \in DOMAIN name_index :
                /\ name_index[i].entity = e
                /\ EntryScore(i).score # None
                /\ AtLeast(EntryScore(i).score, DefaultThreshold)

\* entity e has its primary name, of a non-empty normal form, in the index,
\* and so has another entity of another list type with the same normalized
\* primary name
SharesPrimaryAcrossLists(e) ==
    LET Indexed(f) == \E i \in DOMAIN name_index :
                         /\ name_index[i].entity = f
                         /\ name_index[i].original_name = sanctions_entities[f].primary_name
    IN /\ Indexed(e)
       /\ Normalized(sanctions_entities[e].primary_name) # <<>>
       /\ \E f \in DOMAIN sanctions_entities :
             /\ Indexed(f)
             /\ sanctions_entities[f].list_type # sanctions_entities[e].list_type
             /\ Normalized(sanctions_entities[f].primary_name)
                    = Normalized(sanctions_entities[e].primary_name)

\* C10: when the index holds entities with the same normalized primary name
\* under two or more list types, every result for one of those entities has
\* is_multi_jurisdictional = true, whichever name matched.
C10_MultiJurisdictional ==
    Returned =>
        \A m \in Matches :
            SharesPrimaryAcrossLists(m.entity_id) => m.is_multi_jurisdictional = "true"

(***************************************************************************)
(* Properties of _parse_all_sanctions.                                     *)
(***************************************************************************)
\* C4: in a batch parse a file that is not well-formed contributes no entity:
\* every entity of the returned list comes from a well-formed file.
C4_MalformedContributesNothing ==
    returned.done =>
        \A k \in DOMAIN returned.entities :
            \E i \in DOMAIN xml_files :
                /\ xml_files[i].name = returned.entities[k].source
                /\ xml_files[i].wellformed

\* what the batch extracted from file i: the list type and the names of its
\* entities, in order
Extracted(i) ==
    LET from_file == SelectSeq(all_entities,
                               LAMBDA e : e.source = xml_files[i].name)
    IN [k \in DOMAIN from_file |->
           <<from_file[k].list_type, from_file[k].names>>]

\* C5: the format a document is parsed under depends on its content alone:
\* two well-formed files with the same content and different names give the
\* same entities under the same list type.
C5_FormatFromContentAlone ==
    \A i, j \in 1..(file_pos - 1) :
        (/\ xml_files[i].wellformed
         /\ xml_files[j].wellformed
         /\ xml_files[i].document = xml_files[j].document) =>
            Extracted(i) = Extracted(j)

(***************************************************************************)
(* Properties of the reload.                                               *)
(***************************************************************************)
\* C6: while a reload runs, every find_matches call iterates a fully built
\* index, the old one or the new one, never one that is being populated.
C6_ScansBuiltIndex ==
    \A t \in Readers :
        pc[t] = "scan" =>
            heap[held[t]].name_index = _build_index(heap[held[t]].sanctions_entities)

\* a reader is part way through the index of one matcher while another
\* thread is part way through building the index of the next one
C6_Witness ==
    \E t \in Readers :
        /\ pc[t] = "scan"
        /\ cursor[t] > 0
        /\ \E u \in Threads \ {t} :
              /\ pc[u] = "build"
              /\ held[u] # held[t]
              /\ heap[held[u]].name_index # <<>>
              /\ build_pos[u] <= Len(heap[held[u]].sanctions_entities)

(***************************************************************************)
(* The matcher over entity dicts of any origin: the list_type of an entity *)
(* may be missing, None or empty.                                          *)
(***************************************************************************)
AnyListTypes == {"UN", "", Null, Missing}

AnyNames == {John, JohnDoe}

AnyQueries == {John, JohnDoe, JonDoe}

AnyEntitySet ==
    {Entity(lt, ns) : lt \in AnyListTypes,
                      ns \in UNION {[1..k -> AnyNames] : k \in 1..MaxNames}}

\* the lists of at most n such entities that carry at most t names in all
RECURSIVE AnyListsWithin(_, _)
AnyListsWithin(n, t) ==
    {<<>>} \cup
    (IF n = 0 THEN {}
     ELSE UNION {{<<e>> \o rest : rest \in AnyListsWithin(n - 1, t - Len(e.names))} :
                    e \in {x \in AnyEntitySet : Len(x.names) <= t}})

InitAny ==
    /\ sanctions_entities \in AnyListsWithin(MaxEntities, MaxTotalNames)
    /\ name_index = _build_index(sanctions_entities)
    /\ query \in AnyQueries
    /\ threshold = DefaultThreshold
    /\ result = NoResult
    /\ NormIdle
    /\ RiskIdle
    /\ ParseIdle
    /\ ReloadIdle
    /\ AppIdle

SpecAny == InitAny /\ [][Next]_vars

\* entity e carries no jurisdiction data
NoJurisdiction(e) == sanctions_entities[e].list_type \in {"", Null, Missing}

\* C11: the result for an entity that carries no jurisdiction data (list_type
\* absent or empty) has is_multi_jurisdictional = null and a risk_score equal
\* to the match score.
C11_UnknownJurisdictionIsNull ==
    Returned =>
        \A m \in Matches :
            NoJurisdiction(m.entity_id) =>
                m.is_multi_jurisdictional = "null" /\ m.risk_score = m.score

\* C13: find_matches never raises, for every query and every index built
\* from entities whose list_type may be missing, empty or None.
C13_NeverRaises == result.raised \in {"not called", "no"}

\* C12: find_matches returns an empty list, without error, for every query
\* that is empty, whitespace-only or of an empty normalized form, whatever
\* the index holds.
C12_EmptyQueryMatchesNothing ==
    (/\ result # NoResult
     /\ (query = <<>> \/ strip(query) = <<>> \/ Normalized(query) = <<>>)) =>
        result = [raised |-> "no", matches |-> <<>>]

\* C14: the list find_matches returns is in descending order of risk_score,
\* and results of equal risk_score are in descending order of score.
C14_SortedByRiskThenScore ==
    Returned =>
        \A k \in 1..(Len(result.matches) - 1) :
            \/ result.matches[k].risk_score > result.matches[k + 1].risk_score
            \/ /\ result.matches[k].risk_score = result.matches[k + 1].risk_score
               /\ result.matches[k].score >= result.matches[k + 1].score

\* two results of different risk_score, the one of the later entity first
C14_Witness ==
    /\ Returned
    /\ Len(result.matches) >= 2
    /\ result.matches[1].risk_score > result.matches[2].risk_score
    /\ result.matches[1].entity_id > result.matches[2].entity_id

InitRobust ==
    /\ parser_called \in ParserClasses
    /\ parser_input \in [source : RobustSources, tree : RobustDocuments]
    /\ parser_out = NotCalled
    /\ MatcherIdle
    /\ NormIdle
    /\ RiskIdle
    /\ ParseIdle
    /\ ReloadIdle
    /\ DbIdle
    /\ WebIdle
    /\ ServiceIdle
    /\ CacheIdle
    /\ AuthIdle

Emitted(entities) == [raised |-> "no", entities |-> entities]

\* SanctionsService._parse_all_sanctions, one turn of its loop
ServiceParse ==
    /\ parser_called = "SanctionsService"
    /\ parser_out = NotCalled
    /\ parser_out' = Emitted(ParseByFilename(lower(parser_input.source),
                                             parser_input.tree, parser_input.source))
    /\ UNCHANGED <<parser_called, parser_input, matcherVars, normVars, riskVars,
                   parseVars, reloadVars, dbVars, webVars,
                   serviceVars, cacheVars, authVars>>

\* RobustXMLParser.parse_file: the standard strategy parses a well-formed file
RobustXmlParse ==
    /\ parser_called = "RobustXMLParser"
    /\ parser_out = NotCalled
    /\ \E entities \in _extract_entities(parser_input.tree, parser_input.source) :
           parser_out' = Emitted(entities)
    /\ UNCHANGED <<parser_called, parser_input, matcherVars, normVars, riskVars,
                   parseVars, reloadVars, dbVars, webVars,
                   serviceVars, cacheVars, authVars>>

\* RobustSanctionsParser.parse_all_sanctions, one turn of its loop
RobustSanctionsParse ==
    /\ parser_called = "RobustSanctionsParser"
    /\ parser_out = NotCalled
    /\ parser_out' = Emitted(_parse_xml_with_format_detection(parser_input.tree,
                                                              parser_input.source))
    /\ UNCHANGED <<parser_called, parser_input, matcherVars, normVars, riskVars,
                   parseVars, reloadVars, dbVars, webVars,
                   serviceVars, cacheVars, authVars>>

NextRobust == ServiceParse \/ RobustXmlParse \/ RobustSanctionsParse

SpecRobust == InitRobust /\ [][NextRobust]_vars

\* C16: every entity a watchlist parser emits has a non-empty names list
\* whose first element is its primary_name.
C16_NamesNonEmptyPrimaryFirst ==
    parser_out.raised = "no" =>
        \A i \in DOMAIN parser_out.entities :
            /\ "names" \in DOMAIN parser_out.entities[i]
            /\ parser_out.entities[i].names # <<>>
            /\ parser_out.entities[i].primary_name = parser_out.entities[i].names[1]

(***************************************************************************)
(* The matcher, built from one entity whose name ends in a business        *)
(* abbreviation and queried with the abbreviation spelled out.             *)
(***************************************************************************)
\* the words before the abbreviation: none, one letter, one word
BaseWords == {<<>>, <<"A">>, <<"A","c","m","e">>}

WithBase(base, word) == IF base = <<>> THEN word ELSE base \o <<" ">> \o word

\* a name that ends in a key of ABBREVIATION_MAPPINGS, and the same name
\* with the key replaced by one of its expansions
AbbreviationPairs ==
    UNION {{[name |-> WithBase(base, key),
             expanded |-> WithBase(base, ABBREVIATION_MAPPINGS[key][i])] :
                i \in DOMAIN ABBREVIATION_MAPPINGS[key]} :
           base \in BaseWords, key \in DOMAIN ABBREVIATION_MAPPINGS}

InitAbbrev ==
    /\ \E pair \in AbbreviationPairs :
           /\ sanctions_entities = <<Entity("UN", <<pair.name>>)>>
           /\ query = pair.expanded
    /\ name_index = _build_index(sanctions_entities)
    /\ threshold = DefaultThreshold
    /\ result = NoResult
    /\ NormIdle
    /\ RiskIdle
    /\ ParseIdle
    /\ ReloadIdle
    /\ AppIdle

SpecAbbrev == InitAbbrev /\ [][Next]_vars

\* the abbreviation the name of the entity ends in
AbbreviationOf(name) == split(Normalized(name))[Len(split(Normalized(name)))]

\* the only entity is returned by the token layer with a score of 85 to 99
ReturnedByTokenLayer ==
    \E m \in Matches :
        /\ m.entity_id = 1
        /\ m.match_layer = "token"
        /\ m.score >= 850
        /\ m.score <= 990

InitAppParsers ==
    /\ parser_called \in AppParsers
    /\ parser_input \in [source : {"list"},
                         tree : RecordsUpTo(RecordPool(parser_called), MaxRecords)]
    /\ parser_out = NotCalled
    /\ MatcherIdle
    /\ NormIdle
    /\ RiskIdle
    /\ ParseIdle
    /\ ReloadIdle
    /\ DbIdle
    /\ WebIdle
    /\ ServiceIdle
    /\ CacheIdle
    /\ AuthIdle

ParseUnXml ==
    /\ parser_called = "parse_un_xml"
    /\ parser_out = NotCalled
    /\ parser_out' = parse_un_xml(parser_input.tree)
    /\ UNCHANGED <<parser_called, parser_input, matcherVars, normVars, riskVars,
                   parseVars, reloadVars, dbVars, webVars,
                   serviceVars, cacheVars, authVars>>

ParseEuXml ==
    /\ parser_called = "parse_eu_xml"
    /\ parser_out = NotCalled
    /\ parser_out' = parse_eu_xml(parser_input.tree)
    /\ UNCHANGED <<parser_called, parser_input, matcherVars, normVars, riskVars,
                   parseVars, reloadVars, dbVars, webVars,
                   serviceVars, cacheVars, authVars>>

ParseCanadaXml ==
    /\ parser_called = "parse_canada_xml"
    /\ parser_out = NotCalled
    /\ parser_out' = parse_canada_xml(parser_input.tree)
    /\ UNCHANGED <<parser_called, parser_input, matcherVars, normVars, riskVars,
                   parseVars, reloadVars, dbVars, webVars,
                   serviceVars, cacheVars, authVars>>

NextAppParsers == ParseUnXml \/ ParseEuXml \/ ParseCanadaXml

SpecAppParsers == InitAppParsers /\ [][NextAppParsers]_vars

\* C18: a parser given a well-formed document raises nothing and returns
\* one entry for every record that has all its expected children and a
\* name that is not blank; every other record is skipped.
C18_IncompleteRecordSkipped ==
    parser_out # NotCalled =>
        /\ parser_out.raised = "no"
        /\ [i \in DOMAIN parser_out.entries |-> parser_out.entries[i].full_name]
               = NamesOfComplete(parser_input.tree)

(***************************************************************************)
(* utils.py: one call of incorporate_to_db on a database.                  *)
(***************************************************************************)
InitDb ==
    /\ parsed_data \in {<<>>} \cup {<<f>> : f \in DbFiles}
    /\ db_rows \in ExistingRows
    /\ db_out = NotCalled
    /\ MatcherIdle
    /\ NormIdle
    /\ RiskIdle
    /\ ParseIdle
    /\ ReloadIdle
    /\ DocumentIdle
    /\ WebIdle
    /\ ServiceIdle
    /\ CacheIdle
    /\ AuthIdle

IncorporateToDb ==
    /\ db_out = NotCalled
    /\ db_out' = [raised |-> incorporate_to_db(parsed_data, db_rows).raised]
    /\ db_rows' = incorporate_to_db(parsed_data, db_rows).rows
    /\ UNCHANGED <<parsed_data, matcherVars, normVars, riskVars, parseVars,
                   reloadVars, documentVars, webVars,
                   serviceVars, cacheVars, authVars>>

NextDb == IncorporateToDb

SpecDb == InitDb /\ [][NextDb]_vars

\* C19: a call of incorporate_to_db given valid entries returns normally
\* with every Individual and its aliases stored, and a call that meets an
\* invalid entry raises ValueError and adds no row.
C19_AllOrNothing ==
    [][db_out' # NotCalled =>
          /\ AllValid(parsed_data) =>
                 db_out'.raised = "no" /\ AllStored(parsed_data, db_rows')
          /\ SomeInvalid(parsed_data) =>
                 db_out'.raised = "ValueError" /\ db_rows' = db_rows]_vars

(***************************************************************************)
(* routes.py: a client that posts to /login, logs out and asks for the     *)
(* dashboard, against a user table.                                        *)
(***************************************************************************)
InitWeb ==
    /\ users \in {rows \in UserTables(MaxUsers) : UniqueUsernames(rows)}
    /\ session = {}
    /\ response = Response(0, "", FALSE, NoRequest)
    /\ MatcherIdle
    /\ NormIdle
    /\ RiskIdle
    /\ ParseIdle
    /\ ReloadIdle
    /\ DocumentIdle
    /\ DbIdle
    /\ ServiceIdle
    /\ CacheIdle
    /\ AuthIdle

\* POST /login with a username and a password in the form
PostLogin ==
    \E username \in Usernames, password \in Passwords :
        /\ session' = login_session(users, session, password)
        /\ response' = login_response(users, Request("POST", "/login", username, password))
        /\ UNCHANGED <<users, matcherVars, normVars, riskVars, parseVars, reloadVars,
                       documentVars, dbVars,
                   serviceVars, cacheVars, authVars>>

\* GET /login
GetLogin ==
    /\ response' = Response(200, "login.html", FALSE, Request("GET", "/login", "", ""))
    /\ UNCHANGED <<users, session, matcherVars, normVars, riskVars, parseVars,
                   reloadVars, documentVars, dbVars,
                   serviceVars, cacheVars, authVars>>

\* GET /logout
Logout ==
    /\ session' = {item \in session : item[1] # "user_id"}
    /\ response' = Response(302, "auth.login", FALSE, Request("GET", "/logout", "", ""))
    /\ UNCHANGED <<users, matcherVars, normVars, riskVars, parseVars, reloadVars,
                   documentVars, dbVars,
                   serviceVars, cacheVars, authVars>>

\* GET /dashboard, a route wrapped in login_required
GetDashboard ==
    /\ response' = decorated_function(session, Request("GET", "/dashboard", "", ""))
    /\ UNCHANGED <<users, session, matcherVars, normVars, riskVars, parseVars,
                   reloadVars, documentVars, dbVars,
                   serviceVars, cacheVars, authVars>>

NextWeb == PostLogin \/ GetLogin \/ Logout \/ GetDashboard

SpecWeb == InitWeb /\ [][NextWeb]_vars

IsLoginPost(request) == request.method = "POST" /\ request.path = "/login"

\* C20: a POST to /login with the username and password of a registered
\* user sets user_id in the session and answers 302; with a wrong password
\* for the username the session is left as it was; and the handler of a
\* login_required route runs only when the session holds user_id.
C20_LoginEstablishesSession ==
    [][/\ (/\ IsLoginPost(response'.request)
           /\ Registered(users, response'.request.username, response'.request.password))
          => (HasUserId(session') /\ response'.status = 302)
       /\ (/\ IsLoginPost(response'.request)
           /\ WrongPassword(users, response'.request.username, response'.request.password))
          => session' = session
       /\ response'.handler_ran => HasUserId(session)]_vars

(***************************************************************************)
(* The layer hierarchy of find_matches.                                    *)
(***************************************************************************)
\* what layer k returns for the query of the call and index entry i
LayerScore(k, i) ==
    CASE k = 1 -> _layer1_exact_match(Normalized(query), name_index[i].normalized)
      [] k = 2 -> _layer2_token_match(_tokenize(Normalized(query)), name_index[i].tokens)
      [] k = 3 -> _layer3_phonetic_match(Normalized(query), _tokenize(Normalized(query)),
                                         name_index[i].normalized, name_index[i].tokens)
      [] k = 4 -> _layer4_fuzzy_match(Normalized(query), name_index[i].normalized)

\* the index entry a returned match was made from: the first hit of its entity
EntryOfMatch(m) ==
    CHOOSE i \in HitsOf(m.entity_id) : \A j \in HitsOf(m.entity_id) : i <= j

\* C21: the match_layer and score of a result are those of the first layer,
\* in the order exact, token, phonetic, fuzzy, that returned a score for the
\* index entry, every layer before it having returned None.
C21_FirstFiringLayerWins ==
    Returned =>
        \A m \in Matches :
            /\ HitsOf(m.entity_id) # {}
            /\ LayerRank(m.match_layer) \in 1..4
            /\ LayerScore(LayerRank(m.match_layer), EntryOfMatch(m)) # None
            /\ m.score = Round1(LayerScore(LayerRank(m.match_layer), EntryOfMatch(m)))
            /\ m.matched_name = name_index[EntryOfMatch(m)].original_name
            /\ \A k \in 1..4 :
                   k < LayerRank(m.match_layer) => LayerScore(k, EntryOfMatch(m)) = None

\* a result of an earlier layer for an entry that a later layer scores too
C21_Witness ==
    /\ Returned
    /\ \E m \in Matches :
           /\ m.match_layer = "token"
           /\ LayerScore(3, EntryOfMatch(m)) # None
           /\ LayerScore(4, EntryOfMatch(m)) # None

\* the band of scores, in tenths, of a layer
Band(layer) ==
    CASE layer = "exact" -> 1000..1000
      [] layer = "token" -> 850..990
      [] layer = "phonetic" -> 750..840
      [] layer = "fuzzy" -> 700..740
      [] OTHER -> {}

\* C22: the score of every hit lies in the band of its layer, 100 for exact,
\* [85, 99] for token, [75, 84] for phonetic, [70, 74] for fuzzy, both for the
\* results returned and for every index entry a layer scored; a hit of an
\* earlier layer outscores a hit of a later layer.
C22_ScoreInBandOfLayer ==
    /\ \A i \in DOMAIN name_index :
           EntryScore(i).score # None =>
               Round1(EntryScore(i).score) \in Band(EntryScore(i).match_layer)
    /\ Returned =>
           /\ \A m \in Matches : m.score \in Band(m.match_layer)
           /\ \A m1, m2 \in Matches :
                  LayerRank(m1.match_layer) < LayerRank(m2.match_layer)
                      => m1.score > m2.score

\* one call returns hits of two layers, the later one at the top of its band
C22_Witness ==
    /\ Returned
    /\ \E m1, m2 \in Matches :
           /\ m1.match_layer \in {"exact", "token"}
           /\ m2.match_layer = "fuzzy"
           /\ m2.score = 740

(***************************************************************************)
(* Properties of _calculate_risk_score.                                    *)
(***************************************************************************)
\* the list types of the call, without the empty ones and without case
RiskLists == {UpperListType(lt) : lt \in {l \in rk_lists : ~ Falsy(l)}}

RiskTiers == {_get_risk_tier(lt).tier : lt \in RiskLists}

\* the multiplier the three cases name, in hundredths; 0 for a set of list
\* types they do not cover
NamedMultiplier ==
    IF Cardinality(RiskLists) = 1 THEN 100
    ELSE IF Cardinality(RiskLists) > 1 /\ 1 \in RiskTiers /\ RiskTiers # {1} THEN 125
    ELSE IF Cardinality(RiskLists) > 1 /\ RiskTiers = {1} THEN 120
    ELSE IF Cardinality(RiskLists) > 1 /\ RiskTiers = {2} THEN 115
    ELSE 0

\* C23 as stated: risk_score is exactly min(100, score x m), with m = 1.25
\* across Tier 1 and another tier, 1.20 for several Tier-1 types, 1.15 for
\* several Tier-2 types, and 1 for a single list type.
C23_RiskScoreIsAmplifiedScore ==
    (rk_out.raised = "no" /\ NamedMultiplier # 0) =>
        rk_out.risk_score * 100 = Min(100000, rk_score * NamedMultiplier)

\* C23: risk_score is min(100, score x m) rounded to one decimal place, with
\* m = 1.25 across Tier 1 and another tier, 1.20 for several Tier-1 types,
\* 1.15 for several Tier-2 types, and 1 for a single list type.
C23_RiskScoreIsRoundedAmplifiedScore ==
    (rk_out.raised = "no" /\ NamedMultiplier # 0) =>
        /\ rk_out.risk_score * 100 - Min(100000, rk_score * NamedMultiplier) \in -50..50
        /\ NamedMultiplier = 100 => rk_out.risk_score = rk_score

\* 70.1 under a Tier-1 and a Tier-2 list: 87.625 is reported as 87.6
C23_Witness ==
    /\ rk_out.raised = "no"
    /\ rk_score = 701
    /\ NamedMultiplier = 125
    /\ rk_out.risk_score = 876

\* the level the thresholds give a reported risk score, in tenths
LevelOfRiskScore(risk_score, tier, multi) ==
    IF risk_score >= 900 /\ tier = 1 THEN "Critical"
    ELSE IF risk_score >= 850 \/ (risk_score >= 800 /\ tier = 1) THEN "Very High"
    ELSE IF risk_score >= 750 \/ multi THEN "High"
    ELSE IF risk_score >= 700 THEN "Medium"
    ELSE "Low"

\* C24: for a match under at least one list type, risk_level is one of Low,
\* Medium, High, Very High, Critical and is the level the thresholds 90, 85,
\* 80, 75, 70 give the reported risk_score with the top tier and the
\* multi-jurisdiction flag.
C24_RiskLevelFromRiskScore ==
    (rk_out.raised = "no" /\ rk_lists # {}) =>
        /\ rk_out.risk_level \in {"Low", "Medium", "High", "Very High", "Critical"}
        /\ rk_out.risk_level =
               LevelOfRiskScore(rk_out.risk_score, rk_out.tier,
                                rk_out.is_multi_jurisdictional = "true")

(***************************************************************************)
(* The format parsers of SanctionsService, each given one document.        *)
(***************************************************************************)
InitService ==
    /\ parser_called \in ServiceParsers
    /\ parser_input \in [source : {<<"l","i","s","t",".","x","m","l">>},
                         tree : ServiceDocuments]
    /\ parser_out = NotCalled
    /\ MatcherIdle
    /\ NormIdle
    /\ RiskIdle
    /\ ParseIdle
    /\ ReloadIdle
    /\ DbIdle
    /\ WebIdle
    /\ ServiceIdle
    /\ CacheIdle
    /\ AuthIdle

ParseUkFormat ==
    /\ parser_called = "_parse_uk_format"
    /\ parser_out = NotCalled
    /\ parser_out' = Emitted(_parse_uk_format(parser_input.tree, parser_input.source))
    /\ UNCHANGED <<parser_called, parser_input, matcherVars, normVars, riskVars,
                   parseVars, reloadVars, dbVars, webVars,
                   serviceVars, cacheVars, authVars>>

ParseEuFormat ==
    /\ parser_called = "_parse_eu_format"
    /\ parser_out = NotCalled
    /\ parser_out' = Emitted(_parse_eu_format(parser_input.tree, parser_input.source))
    /\ UNCHANGED <<parser_called, parser_input, matcherVars, normVars, riskVars,
                   parseVars, reloadVars, dbVars, webVars,
                   serviceVars, cacheVars, authVars>>

ParseUnFormat ==
    /\ parser_called = "_parse_un_format"
    /\ parser_out = NotCalled
    /\ parser_out' = Emitted(_parse_un_format(parser_input.tree, parser_input.source))
    /\ UNCHANGED <<parser_called, parser_input, matcherVars, normVars, riskVars,
                   parseVars, reloadVars, dbVars, webVars,
                   serviceVars, cacheVars, authVars>>

ParseOfacFormat ==
    /\ parser_called = "_parse_ofac_format"
    /\ parser_out = NotCalled
    /\ parser_out' = Emitted(_parse_ofac_format(parser_input.tree, parser_input.source))
    /\ UNCHANGED <<parser_called, parser_input, matcherVars, normVars, riskVars,
                   parseVars, reloadVars, dbVars, webVars,
                   serviceVars, cacheVars, authVars>>

ParseGeneric ==
    /\ parser_called = "_parse_generic"
    /\ parser_out = NotCalled
    /\ parser_out' = Emitted(_parse_generic(parser_input.tree, parser_input.source))
    /\ UNCHANGED <<parser_called, parser_input, matcherVars, normVars, riskVars,
                   parseVars, reloadVars, dbVars, webVars,
                   serviceVars, cacheVars, authVars>>

NextService ==
    ParseUkFormat \/ ParseEuFormat \/ ParseUnFormat \/ ParseOfacFormat \/ ParseGeneric

SpecService == InitService /\ [][NextService]_vars

\* C25: in every entity a format parser (UK, UN, EU, OFAC) emits, no name
\* stands twice in names, and the names stand in the order in which the
\* parser's name elements first carry them in the document.
C25_NamesDistinctInDocumentOrder ==
    (parser_out.raised = "no" /\ parser_called \in FormatParsers) =>
        \A i \in DOMAIN parser_out.entities :
            \A a, b \in DOMAIN parser_out.entities[i].names :
                a < b =>
                    /\ parser_out.entities[i].names[a] # parser_out.entities[i].names[b]
                    /\ FirstSeen(parser_out.entities[i].names[a],
                                 parser_input.tree[1].children, parser_called)
                         < FirstSeen(parser_out.entities[i].names[b],
                                     parser_input.tree[1].children, parser_called)

\* C26: no entity a SanctionsService parser (UK, UN, EU, OFAC, generic) emits
\* holds a name for which _contains_illegal_content is true.
C26_NoIllegalName ==
    parser_out.raised = "no" =>
        \A i \in DOMAIN parser_out.entities :
            \A k \in DOMAIN parser_out.entities[i].names :
                ~ _contains_illegal_content(parser_out.entities[i].names[k])

\* no call of get_matcher_instance, reload_sanctions_data or find_matches is
\* in progress
Quiescent == \A t \in Threads : pc[t] = "idle"

\* C27: whenever no call is in progress and the global matcher instance is
\* set, the instance was built from the entity list the current global
\* sanctions_service holds.
C27_MatcherBuiltFromCurrentService ==
    (Quiescent /\ _matcher_instance # 0) =>
        /\ sanctions_service.loaded
        /\ heap[_matcher_instance].sanctions_entities = sanctions_service.sanctions_entities

(***************************************************************************)
(* The construction of a SanctionsService over a watchlist directory and    *)
(* its cache file.                                                          *)
(***************************************************************************)
InitConstruct ==
    /\ MatcherIdle /\ NormIdle /\ RiskIdle /\ ParseIdle /\ ReloadIdle
    /\ DocumentIdle /\ DbIdle /\ WebIdle /\ CacheIdle /\ AuthIdle
    /\ data_dir \in ParsedDirectories(MaxEntities)
    /\ cache_file \in CacheFiles(MaxEntities)
    /\ constructed = [constructed |-> FALSE]

\* SanctionsService(data_dir): __init__, that is _load_or_parse_sanctions
NewSanctionsService ==
    /\ constructed' = _load_or_parse_sanctions(cache_file, data_dir).object
    /\ cache_file' = _load_or_parse_sanctions(cache_file, data_dir).cache
    /\ UNCHANGED <<data_dir, matcherVars, normVars, riskVars, parseVars, reloadVars,
                   documentVars, dbVars, webVars, cacheVars, authVars>>

\* the files of the directory are replaced between two constructions
ReplaceFiles ==
    /\ \E d \in ParsedDirectories(MaxEntities) : d # data_dir /\ data_dir' = d
    /\ UNCHANGED <<cache_file, constructed, matcherVars, normVars, riskVars, parseVars,
                   reloadVars, documentVars, dbVars, webVars, cacheVars, authVars>>

NextConstruct == NewSanctionsService \/ ReplaceFiles

SpecConstruct == InitConstruct /\ [][NextConstruct]_vars

\* the entries of the index that stand for name j of entity k
IndexEntriesOf(object, k, j) ==
    {i \in DOMAIN object.all_names :
        /\ object.all_names[i].entity = k
        /\ object.all_names[i].name = object.sanctions_entities[k].names[j]
        /\ object.all_names[i].lower = lower(object.sanctions_entities[k].names[j])}

\* C28: after construction all_names holds one entry (lowercased name,
\* entity, original name) for every name of every entity of sanctions_entities
C28_NameIndexCoversEveryName ==
    constructed.constructed =>
        \A k \in DOMAIN constructed.sanctions_entities :
            \A j \in DOMAIN constructed.sanctions_entities[k].names :
                Cardinality(IndexEntriesOf(constructed, k, j)) = 1

(***************************************************************************)
(* One RobustXMLParser and the parse_file calls made on it.                 *)
(***************************************************************************)
InitParseCache ==
    /\ MatcherIdle /\ NormIdle /\ RiskIdle /\ ParseIdle /\ ReloadIdle
    /\ DbIdle /\ WebIdle /\ ServiceIdle /\ AuthIdle
    /\ parser_called = "RobustXMLParser"
    /\ parser_input = <<>>
    /\ parser_out = NotCalled
    /\ parsed_files = <<>>
    /\ parse_calls = 0

\* parser.parse_file(file_path, source_name) on a file of some content
RobustParseFile ==
    /\ parse_calls < MaxParses
    /\ \E document \in CachedDocuments, source_name \in RobustSources :
         \E r \in parse_file(parsed_files, document, source_name) :
            /\ parser_input' = [source |-> source_name, tree |-> document]
            /\ parser_out' = Emitted(r.entities)
            /\ parsed_files' = r.parsed_files
    /\ parse_calls' = parse_calls + 1
    /\ UNCHANGED <<parser_called, matcherVars, normVars, riskVars, parseVars, reloadVars,
                   dbVars, webVars, serviceVars, authVars>>

NextParseCache == RobustParseFile

SpecParseCache == InitParseCache /\ [][NextParseCache]_vars

\* C29: after any sequence of parse_file calls, a call returns entities that
\* a fresh parser can return for the same content and the same source_name
C29_ParseCacheTransparent ==
    parse_calls > 0 =>
        parser_out.entities \in
            {r.entities : r \in parse_file(<<>>, parser_input.tree, parser_input.source)}

(***************************************************************************)
(* The system_auth row under setup_master_password, verify_password and    *)
(* the passing of time.                                                     *)
(***************************************************************************)
InitAuth ==
    /\ MatcherIdle /\ NormIdle /\ RiskIdle /\ ParseIdle /\ ReloadIdle
    /\ DocumentIdle /\ DbIdle /\ WebIdle /\ ServiceIdle /\ CacheIdle
    /\ system_auth = AuthRow("", 0, Unlocked)
    /\ now = 0
    /\ auth_out = NoCall

\* auth.setup_master_password(password); a hash stands for its password
SetupMasterPassword ==
    /\ \E password \in AuthPasswords :
         system_auth' = AuthRow(password, system_auth.failed_attempts,
                                system_auth.locked_until)
    /\ UNCHANGED <<now, auth_out, matcherVars, normVars, riskVars, parseVars, reloadVars,
                   documentVars, dbVars, webVars, serviceVars, cacheVars>>

\* auth.verify_password(password)
VerifyPassword ==
    /\ system_auth.failed_attempts < MaxAttempts
    /\ \E password \in AuthPasswords :
         /\ system_auth' = verify_password(system_auth, now, password).row
         /\ auth_out' = Call(password, system_auth, now,
                             verify_password(system_auth, now, password).returned)
    /\ UNCHANGED <<now, matcherVars, normVars, riskVars, parseVars, reloadVars,
                   documentVars, dbVars, webVars, serviceVars, cacheVars>>

\* ten minutes pass
Tick ==
    /\ now < MaxClock
    /\ now' = now + 1
    /\ UNCHANGED <<system_auth, auth_out, matcherVars, normVars, riskVars, parseVars,
                   reloadVars, documentVars, dbVars, webVars, serviceVars, cacheVars>>

NextAuth == SetupMasterPassword \/ VerifyPassword \/ Tick

SpecAuth == InitAuth /\ [][NextAuth]_vars

\* C30: a call of verify_password made while the account is locked returns
\* False, also for the correct password, and leaves failed_attempts and
\* locked_until as they were; a call that returns True leaves failed_attempts
\* at 0 and locked_until cleared.  Only verify_password writes the two
\* columns, so the row holds what the last call left in them.
C30_LockedCallsLeaveRowAndSuccessResets ==
    /\ (auth_out.returned # "not called" /\ IsLocked(auth_out.row, auth_out.at)) =>
          /\ auth_out.returned = "False"
          /\ system_auth.failed_attempts = auth_out.row.failed_attempts
          /\ system_auth.locked_until = auth_out.row.locked_until
    /\ auth_out.returned = "True" =>
          /\ system_auth.failed_attempts = 0
          /\ system_auth.locked_until = Unlocked

\* the correct password was refused while the account was locked
C30_Witness ==
    /\ auth_out.returned = "False"
    /\ IsLocked(auth_out.row, auth_out.at)
    /\ auth_out.password = auth_out.row.master_password_hash
    /\ system_auth.failed_attempts = MaxFailedAttempts
    /\ system_auth.locked_until = LockedUntil(auth_out.at + LockDuration)

\* a call with the correct password after the lock ran out returned True
C30_WitnessReset ==
    /\ auth_out.returned = "True"
    /\ auth_out.row.failed_attempts >= MaxFailedAttempts
    /\ ~ auth_out.row.locked_until.null
    /\ system_auth.failed_attempts = 0

====
